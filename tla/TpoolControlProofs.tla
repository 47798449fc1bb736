------------------------- MODULE TpoolControlProofs -------------------------
(***************************************************************************)
(* Proofs about what makes the monitor of the thread pool act: its load    *)
(* control, for any limits, thresholds and commands, and the calls of its  *)
(* clients, for any number of them.                                        *)
(***************************************************************************)
EXTENDS TpoolLoad, TpoolCommand, TLAPS

-----------------------------------------------------------------------------
(***************************************************************************)
(* The load control.                                                       *)
(***************************************************************************)

\* The pool is created with a size within its limits.
SizesInOrder == Minsize <= Defsize /\ Defsize <= Maxsize

\* What is left of the count between two readings, and what a change was
\* decided on: beyond five readings the pool has been changed and the count
\* restarted, unless the pool is too small to change.
CountingTrue ==
    ~commanded =>
        /\ mpc = "wait" => cursize < 5 \/ loadsilver \in (-5)..5
        /\ mpc = "control" =>
              /\ loadctl > 0 => rate >= Hload
              /\ loadctl < 0 => rate <= Lload
              /\ loadctl = 0 => cursize < 5 \/ loadsilver \in (-5)..5
              /\ cursize < 5 => loadctl = 0

IInv == TypeOK /\ CountersMeet /\ MaximumKept /\ WithinLimits /\ CountingTrue /\ SmallPoolLeft

-----------------------------------------------------------------------------
\* A reading is a percentage as long as the counters say how many are free.
LEMMA ReadingIsPercentage ==
    ASSUME cursize \in Nat \ {0}, available \in Int
    PROVE  Reading \in Int /\ (available \in 0..cursize => Reading \in 0..100)
<1>3. CASE available \in 0..cursize
  <2> DEFINE x == (cursize - available) * 100
  <2>1. x \in Nat /\ x <= 100 * cursize
    BY <1>3
  <2>2. \A y \in Nat, c \in Nat \ {0} : y <= 100 * c => y \div c \in 0..100
    OBVIOUS
  <2> QED BY <1>3, <2>1, <2>2 DEF Reading
<1>4. Reading \in Int
  <2>1. \A y \in Int, c \in Nat \ {0} : y \div c \in Int
    OBVIOUS
  <2>2. (cursize - available) * 100 \in Int /\ (available - cursize) * 100 \in Int
    OBVIOUS
  <2>3. ((cursize - available) * 100) \div cursize \in Int
    BY <2>1, <2>2
  <2>4. ((available - cursize) * 100) \div cursize \in Int
    BY <2>1, <2>2
  <2> QED BY <2>3, <2>4 DEF Reading
<1> QED BY <1>3, <1>4

\* A count moves by one, towards what the reading says, or begins again.
LEMMA CountStep ==
    ASSUME TypeOK, NEW r \in Int
    PROVE  /\ Counted(r) \in (0 - SilverBound)..SilverBound
           /\ Counted(r) > 5 => loadsilver > 5 \/ r >= Hload
           /\ Counted(r) < -5 => loadsilver < -5 \/ r <= Lload
  BY LoadAssumption DEF TypeOK, Counted, Bounded

\* How much a count changes a pool.
LEMMA ChangeOfSize ==
    ASSUME cursize \in Nat, NEW n \in Int
    PROVE  /\ Change(n) \in Int
           /\ Change(n) > 0 => n > 5
           /\ Change(n) < 0 => n < -5
           /\ Change(n) = 0 => cursize < 5 \/ n \in (-5)..5
           /\ cursize < 5 => Change(n) = 0
<1>1. cursize \div 5 \in Nat /\ (cursize < 5 <=> cursize \div 5 = 0)
  OBVIOUS
<1> QED BY <1>1 DEF Change

\* The change of size that a command or the load control asks for is one of
\* these three.
LEMMA SizectlTypes ==
    ASSUME TypeOK, NEW n \in Int, Sizectl(n)
    PROVE  /\ cursize' \in Nat /\ available' \in Int /\ busy' \in 0..cursize'
           /\ failed' \in BOOLEAN /\ drifted' \in BOOLEAN
           /\ ~drifted' /\ available = cursize - busy => available' = cursize' - busy'
           /\ ~drifted' => ~drifted
           /\ cursize' <= Maxsize \/ cursize' <= cursize
           /\ cursize' >= cursize \/ cursize' >= cursize + n
<1>1. CASE Grow(n)
  <2>1. PICK k \in 0..n : cursize' = cursize + k /\ available' = available + k /\ failed' = (k < n)
    BY <1>1 DEF Grow
  <2>2. n > 0 /\ cursize + n <= Maxsize /\ UNCHANGED <<busy, drifted>>
    BY <1>1 DEF Grow
  <2>3. failed' \in BOOLEAN
    BY <2>1
  <2> QED BY <2>1, <2>2, <2>3, LoadAssumption DEF TypeOK
<1>2. CASE Shrink(n)
  <2>1. PICK k \in 0..(0 - n), b \in 0..busy, d \in (0 - DriftBound)..DriftBound :
          /\ k - b \in 0..(cursize - busy) /\ d \in (0 - k)..k
          /\ cursize' = cursize - k /\ busy' = busy - b
          /\ available' = available - (k - b) + d
          /\ drifted' = (drifted \/ b # 0 \/ d # 0)
    BY <1>2 DEF Shrink
  <2>2. n < 0 /\ UNCHANGED failed
    BY <1>2 DEF Shrink
  <2>3. drifted' \in BOOLEAN /\ (~drifted' => ~drifted /\ b = 0 /\ d = 0)
    BY <2>1 DEF TypeOK
  <2>4. /\ cursize \in Nat /\ available \in Int /\ busy \in 0..cursize
        /\ k \in Nat /\ b \in Nat /\ d \in Int
    BY <2>1, <2>2, LoadAssumption DEF TypeOK
  <2>5. cursize' \in Nat /\ available' \in Int /\ busy' \in 0..cursize'
    BY <2>1, <2>4
  <2> QED BY <2>1, <2>2, <2>3, <2>4, <2>5 DEF TypeOK
<1>3. CASE UNCHANGED <<size, busy>>
  BY <1>3 DEF TypeOK, size
<1> QED BY <1>1, <1>2, <1>3 DEF Sizectl

LEMMA InitIInv == SizesInOrder /\ Init => IInv
<1> SUFFICES ASSUME SizesInOrder, Init PROVE IInv
  OBVIOUS
<1> USE LoadAssumption DEF SizesInOrder, Init
<1>1. commanded \in BOOLEAN /\ failed \in BOOLEAN /\ drifted \in BOOLEAN
  OBVIOUS
<1>2. TypeOK
  BY <1>1 DEF TypeOK
<1>3. MaximumKept /\ WithinLimits /\ CountersMeet /\ SmallPoolLeft
  BY DEF MaximumKept, WithinLimits, CountersMeet, SmallPoolLeft
<1>4. CountingTrue
  BY DEF CountingTrue
<1> QED BY <1>2, <1>3, <1>4 DEF IInv

LEMMA NextIInv == IInv /\ [Next]_vars => IInv'
<1> SUFFICES ASSUME IInv, [Next]_vars PROVE IInv'
  OBVIOUS
<1> USE LoadAssumption DEF IInv
<1>1. ASSUME TakeTask \/ EndTask PROVE IInv'
  <2>1. UNCHANGED <<cursize, rate, loadsilver, loadctl, mpc, commanded, failed, drifted>>
    BY <1>1 DEF TakeTask, EndTask, history
  <2>2. TypeOK'
    BY <1>1, <2>1 DEF TakeTask, EndTask, TypeOK
  <2>3. ASSUME available = cursize - busy PROVE available' = cursize' - busy'
    BY <1>1, <2>1, <2>3 DEF TakeTask, EndTask, TypeOK
  <2>4. CountersMeet'
    BY <2>1, <2>3 DEF CountersMeet
  <2> QED
    BY <2>1, <2>2, <2>4 DEF MaximumKept, WithinLimits, CountingTrue, SmallPoolLeft
<1>2. CASE Loadcal
  <2>1. cursize \in Nat \ {0} /\ available \in Int
    BY <1>2 DEF Loadcal, TypeOK
  <2> DEFINE r == Reading
  <2>2. r \in Int /\ (available \in 0..cursize => r \in 0..100)
    BY <2>1, ReadingIsPercentage
  <2>3. /\ rate' = r /\ mpc' = "control" /\ mpc = "wait"
        /\ UNCHANGED <<cursize, available, busy, failed, drifted, commanded>>
    BY <1>2 DEF Loadcal, size
  <2> HIDE DEF r
  <2>6. CountersMeet'
    BY <2>2, <2>3 DEF TypeOK, CountersMeet
  <2>4. CASE cursize = Maxsize /\ loadctl' = 0 /\ UNCHANGED loadsilver
    BY <2>2, <2>3, <2>4, <2>6 DEF TypeOK, MaximumKept, WithinLimits, CountingTrue, SmallPoolLeft
  <2>5. CASE loadsilver' = Counted(r) /\ loadctl' = Change(Counted(r))
    <3> DEFINE s == Counted(r)
    <3>1. /\ s \in (0 - SilverBound)..SilverBound
          /\ s > 5 => loadsilver > 5 \/ r >= Hload
          /\ s < -5 => loadsilver < -5 \/ r <= Lload
      BY <2>2, CountStep
    <3>2. s \in Int
      BY <3>1
    <3>3. /\ Change(s) \in Int
          /\ Change(s) > 0 => s > 5
          /\ Change(s) < 0 => s < -5
          /\ Change(s) = 0 => cursize < 5 \/ s \in (-5)..5
          /\ cursize < 5 => Change(s) = 0
      BY <2>1, <3>2, ChangeOfSize
    <3>4. loadsilver' = s /\ loadctl' = Change(s)
      BY <2>5
    <3> HIDE DEF s
    <3>5. TypeOK'
      BY <2>2, <2>3, <3>1, <3>3, <3>4 DEF TypeOK
    <3>6. MaximumKept' /\ WithinLimits' /\ SmallPoolLeft'
      BY <2>3, <3>3, <3>4 DEF MaximumKept, WithinLimits, SmallPoolLeft
    <3>7. CountingTrue'
      BY <2>1, <2>2, <2>3, <3>1, <3>2, <3>3, <3>4 DEF CountingTrue, TypeOK
    <3> QED BY <2>6, <3>5, <3>6, <3>7
  <2> QED BY <1>2, <2>4, <2>5 DEF Loadcal, r
<1>3. CASE LoadcalCrashes
  BY <1>3 DEF LoadcalCrashes, TypeOK, MaximumKept, WithinLimits, CountingTrue, size, CountersMeet,
              SmallPoolLeft
<1>4. CASE Control
  <2>1. /\ mpc = "control" /\ mpc' = "wait"
        /\ UNCHANGED <<rate, loadctl, commanded>>
    BY <1>4 DEF Control
  <2>2. CASE loadctl = 0 /\ UNCHANGED <<size, busy, loadsilver>>
    BY <2>1, <2>2 DEF TypeOK, MaximumKept, WithinLimits, CountingTrue, size, CountersMeet,
                      SmallPoolLeft
  <2>3. CASE loadctl # 0 /\ Sizectl(Clipped) /\ loadsilver' = 0
    <3> DEFINE n == Clipped
    <3>1. n \in Int /\ (cursize >= Minsize => cursize + n >= Minsize)
      BY DEF Clipped, TypeOK, MaximumKept
    <3>2. /\ cursize' \in Nat /\ available' \in Int /\ busy' \in 0..cursize'
          /\ failed' \in BOOLEAN /\ drifted' \in BOOLEAN
          /\ ~drifted' /\ available = cursize - busy => available' = cursize' - busy'
          /\ ~drifted' => ~drifted
          /\ cursize' <= Maxsize \/ cursize' <= cursize
          /\ cursize' >= cursize \/ cursize' >= cursize + n
      BY <2>3, <3>1, SizectlTypes
    <3> HIDE DEF n
    <3>3. CountersMeet'
      BY <2>1, <3>2 DEF CountersMeet
    <3>4. TypeOK'
      BY <2>1, <2>3, <3>2 DEF TypeOK
    <3>5. MaximumKept' /\ WithinLimits'
      BY <2>1, <3>1, <3>2 DEF MaximumKept, WithinLimits, TypeOK
    <3> QED BY <2>1, <2>3, <3>3, <3>4, <3>5 DEF CountingTrue, SmallPoolLeft
  <2> QED BY <1>4, <2>2, <2>3 DEF Control
<1>5. ASSUME NEW n \in Commands, Command(n) PROVE IInv'
  <2>1. n \in Int
    OBVIOUS
  <2>2. /\ cursize' \in Nat /\ available' \in Int /\ busy' \in 0..cursize'
        /\ failed' \in BOOLEAN /\ drifted' \in BOOLEAN
        /\ ~drifted' /\ available = cursize - busy => available' = cursize' - busy'
        /\ ~drifted' => ~drifted
        /\ cursize' <= Maxsize \/ cursize' <= cursize
    BY <1>5, <2>1, SizectlTypes DEF Command
  <2>3. CountersMeet'
    BY <1>5, <2>2 DEF Command, CountersMeet
  <2>4. TypeOK'
    BY <1>5, <2>2 DEF Command, TypeOK
  <2> QED BY <1>5, <2>2, <2>3, <2>4
          DEF Command, TypeOK, MaximumKept, WithinLimits, CountingTrue, SmallPoolLeft
<1>6. CASE UNCHANGED vars
  BY <1>6 DEF vars, TypeOK, MaximumKept, WithinLimits, CountingTrue, CountersMeet, SmallPoolLeft
<1> QED BY <1>1, <1>2, <1>3, <1>4, <1>5, <1>6 DEF Next, SomeCommand

\* The counters, the limits and the count of readings, in every reachable state.
THEOREM Invariant == SizesInOrder /\ Spec => []IInv
  BY InitIInv, NextIInv, PTL DEF Spec

\* Until a worker takes or ends a task while a shrink cancels it, the two counters
\* say how many workers are free, and the reading is a part of all of them; after
\* that the counters of the code, which are changed without a test, need not agree.
THEOREM CountersHold == SizesInOrder /\ Spec => [](TypeOK /\ CountersMeet)
<1>1. IInv => TypeOK /\ CountersMeet
  BY DEF IInv
<1> QED BY <1>1, Invariant, PTL

\* Whatever is asked for, the pool does not outgrow attr.maxsize.
THEOREM MaximumHolds == SizesInOrder /\ Spec => []MaximumKept
<1>1. IInv => MaximumKept
  BY DEF IInv
<1> QED BY <1>1, Invariant, PTL

\* Until a command comes the load control keeps the pool within both limits.
THEOREM LimitsHold == SizesInOrder /\ Spec => []WithinLimits
<1>1. IInv => WithinLimits
  BY DEF IInv
<1> QED BY <1>1, Invariant, PTL

\* Until a command comes the pool is only changed after a reading that calls for
\* it: the count that decides is never left over from before.
THEOREM MessagesHold == SizesInOrder /\ Spec => []MessagesTrue
<1>1. IInv => MessagesTrue
  BY DEF IInv, CountingTrue, MessagesTrue
<1> QED BY <1>1, Invariant, PTL

\* A pool of fewer than five workers is left as it is by the load control.
THEOREM SmallPoolsStay == SizesInOrder /\ Spec => []SmallPoolLeft
<1>1. IInv => SmallPoolLeft
  BY DEF IInv
<1> QED BY <1>1, Invariant, PTL

\* All that the load control promises, for any limits, thresholds and commands.
THEOREM LoadHolds == SizesInOrder /\ Spec => []LoadSound
<1>1. TypeOK /\ CountersMeet /\ WithinLimits /\ MessagesTrue /\ SmallPoolLeft /\ MaximumKept
        => LoadSound
  BY DEF LoadSound
<1> QED
  BY <1>1, CountersHold, LimitsHold, MessagesHold, SmallPoolsStay, MaximumHolds, PTL

-----------------------------------------------------------------------------
(***************************************************************************)
(* The calls: as long as they are made one at a time and none has timed    *)
(* out, a call returns with its own command carried out.                   *)
(***************************************************************************)

\* What holds whatever overlaps: who has olock, and who is being served.
MonitorTrue ==
    /\ olock = Nobody => mstep \in {"create", "lock", "wait", "failed"}
    /\ mstep = "create" => pstatus = "INIT" /\ result = "NONE"
    /\ mstep = "execute" => command # "NONE"
    /\ \A c \in Clients : cpc[c] \in {"o_test", "o_wait"} => call[c] = "create"

Waits(c) == cpc[c] \in {"i_test", "i_wait"}

\* Calls are made one at a time.
Alone == \A c, d \in Clients : cpc[c] # "idle" /\ cpc[d] # "idle" => c = d

\* A client that has still to leave its command finds no result of another.
Asking ==
    \A c \in Clients :
        cpc[c] = "o_lock" => result = "NONE" /\ executed[c] = "no" /\ pstatus = "READY"

\* The command that the monitor finds is that of the client that waits ...
Pending ==
    command # "NONE" /\ mstep \notin {"result", "clear"} =>
        /\ issuer \in Clients /\ Waits(issuer) /\ executed[issuer] = "no"
        /\ command = "SIZECTL" => iargs = issuer
        /\ command = "DESTROY" <=> call[issuer] = "destroy"
        /\ result = "NONE"

\* ... and waits still when it was carried out.
Executed ==
    mstep = "result" =>
        /\ issuer \in Clients /\ Waits(issuer) /\ executed[issuer] # "no"
        /\ call[issuer] = "destroy" => pstatus = "UNAVAILABLE"
        /\ result = "NONE"

\* The result that a client finds is its own.
Own ==
    \A c \in Clients :
        Waits(c) /\ result # "NONE" =>
            /\ executed[c] # "no"
            /\ call[c] = "destroy" => pstatus = "UNAVAILABLE"

\* Between two calls no result is left over, unless the pool is gone.
Quiet ==
    pstatus = "READY" /\ (\A c \in Clients : ~Waits(c)) => result = "NONE"

Orderly == Alone /\ Asking /\ Pending /\ Executed /\ Own /\ Quiet

CommandIInv == CommandTypeOK /\ MonitorTrue /\ (~crossed => Orderly /\ DoneOnReturn)

-----------------------------------------------------------------------------
\* No step of a client or of the monitor leaves the types.
LEMMA CommandTypeStep == CommandTypeOK /\ [CommandNext]_commandVars => CommandTypeOK'
<1> SUFFICES ASSUME CommandTypeOK, [CommandNext]_commandVars PROVE CommandTypeOK'
  OBVIOUS
<1> USE CommandAssumption DEF CommandTypeOK, pool, monitor, callHistory, CGoto, Return,
        Results
<1>1. CASE CreateTest \/ CreateTimeout
  <2>1. CASE CreateTest
    <3>1. cpc' \in [Clients -> {"idle", "o_test", "o_wait", "o_lock", "i_test", "i_wait"}]
      BY <2>1 DEF CreateTest
    <3>2. ret' \in [Clients -> {"none", "SUCCESS", "SYSERROR"}]
      BY <2>1 DEF CreateTest
    <3> QED
      BY <2>1, <3>1, <3>2 DEF CreateTest
  <2>2. CASE CreateTimeout
    BY <2>2 DEF CreateTimeout
  <2> QED
    BY <1>1, <2>1, <2>2
<1>2. ASSUME NEW c \in Clients, NEW k \in {"sizectl", "destroy"}, Begin(c, k)
      PROVE  CommandTypeOK'
  BY <1>2 DEF Begin
<1>3. ASSUME NEW c \in Clients, SetCommand(c) PROVE CommandTypeOK'
  BY <1>3 DEF SetCommand
<1>4. ASSUME NEW c \in Clients, AwaitResult(c) \/ ResultTimeout(c) PROVE CommandTypeOK'
  <2>1. CASE cpc[c] = "i_test" /\ result = "NONE"
    BY <1>4, <2>1 DEF AwaitResult, ResultTimeout
  <2>2. CASE End(c) /\ crossed' \in BOOLEAN
    <3>1. cpc' \in [Clients -> {"idle", "o_test", "o_wait", "o_lock", "i_test", "i_wait"}]
      BY <2>2 DEF End
    <3>2. ret' \in [Clients -> {"none", "SUCCESS", "SYSERROR"}]
      BY <2>2 DEF End
    <3>3. result' \in Results \cup {"NONE"} /\ iargs' \in Clients \cup {Nobody}
      BY <2>2 DEF End
    <3> QED
      BY <2>2, <3>1, <3>2, <3>3 DEF End
  <2> QED
    BY <1>4, <2>1, <2>2 DEF AwaitResult, ResultTimeout
<1>5. ASSUME NEW c \in Clients, SpuriousWake(c) PROVE CommandTypeOK'
  BY <1>5 DEF SpuriousWake
<1>6. CASE Created
  BY <1>6 DEF Created
<1>7. CASE MonitorLock \/ Load \/ MonitorTest \/ Wild
  BY <1>7 DEF MonitorLock, Load, MonitorTest, Wild
<1>8. ASSUME NEW r \in Results, Execute(r) PROVE CommandTypeOK'
  BY <1>8 DEF Execute
<1>9. CASE Result
  BY <1>9 DEF Result
<1>10. CASE Clear
  BY <1>10 DEF Clear
<1>11. CASE UNCHANGED commandVars
  BY <1>11 DEF commandVars
<1> QED
  BY <1>1, <1>2, <1>3, <1>4, <1>5, <1>6, <1>7, <1>8, <1>9, <1>10, <1>11
     DEF CommandNext, ClientStep, MonitorStep

\* What holds whatever overlaps is kept by every step.
LEMMA MonitorTrueStep ==
  CommandTypeOK /\ MonitorTrue /\ [CommandNext]_commandVars => MonitorTrue'
<1> SUFFICES ASSUME CommandTypeOK, MonitorTrue, [CommandNext]_commandVars PROVE MonitorTrue'
  OBVIOUS
<1> USE CommandAssumption DEF CommandTypeOK, MonitorTrue, pool, monitor, callHistory,
        CGoto, Return, Results
<1>1. CASE CreateTest \/ CreateTimeout
  BY <1>1 DEF CreateTest, CreateTimeout
<1>2. ASSUME NEW c \in Clients, NEW k \in {"sizectl", "destroy"}, Begin(c, k)
      PROVE  MonitorTrue'
  BY <1>2 DEF Begin
<1>3. ASSUME NEW c \in Clients, SetCommand(c) PROVE MonitorTrue'
  BY <1>3 DEF SetCommand
<1>4. ASSUME NEW c \in Clients, AwaitResult(c) \/ ResultTimeout(c) PROVE MonitorTrue'
  BY <1>4 DEF AwaitResult, ResultTimeout, End
<1>5. ASSUME NEW c \in Clients, SpuriousWake(c) PROVE MonitorTrue'
  BY <1>5 DEF SpuriousWake
<1>6. CASE Created
  BY <1>6 DEF Created
<1>7. CASE MonitorLock \/ Load \/ MonitorTest \/ Wild
  <2>1. CASE MonitorLock
    BY <2>1 DEF MonitorLock
  <2>2. CASE Load
    BY <2>2 DEF Load
  <2>3. CASE MonitorTest
    BY <2>3 DEF MonitorTest
  <2>4. CASE Wild
    <3>1. olock # Nobody
      BY <2>4 DEF Wild, ArgumentGone
    <3> QED
      BY <2>4, <3>1 DEF Wild
  <2> QED
    BY <1>7, <2>1, <2>2, <2>3, <2>4
<1>8. ASSUME NEW r \in Results, Execute(r) PROVE MonitorTrue'
  BY <1>8 DEF Execute
<1>9. CASE Result
  BY <1>9 DEF Result
<1>10. CASE Clear
  BY <1>10 DEF Clear
<1>11. CASE UNCHANGED commandVars
  BY <1>11 DEF commandVars
<1> QED
  BY <1>1, <1>2, <1>3, <1>4, <1>5, <1>6, <1>7, <1>8, <1>9, <1>10, <1>11
     DEF CommandNext, ClientStep, MonitorStep

\* A call that overlapped or timed out is not forgotten.
LEMMA CrossedStays == CommandTypeOK /\ [CommandNext]_commandVars /\ crossed => crossed'
  BY DEF CommandTypeOK, CommandNext, ClientStep, MonitorStep, commandVars, callHistory,
         CreateTest, CreateTimeout, Begin, SetCommand, AwaitResult, ResultTimeout, End,
         SpuriousWake, Created, MonitorLock, Load, MonitorTest, Wild, Execute, Result, Clear

\* What a call is for and what it finds, along its way and along that of the monitor.
LEMMA OrderlyStep ==
  ASSUME CommandTypeOK, MonitorTrue, Orderly, DoneOnReturn,
         [CommandNext]_commandVars, ~crossed, ~crossed'
  PROVE  Orderly' /\ DoneOnReturn'
<1> USE CommandAssumption DEF Waits, pool, monitor, callHistory, CGoto, Return
<1> Alone /\ Asking /\ Pending /\ Executed /\ Own /\ Quiet
  BY DEF Orderly
<1>1. CASE CreateTest
  <2>1. /\ \A c \in Clients : c # Creator => cpc'[c] = cpc[c]
        /\ cpc[Creator] = "o_test" /\ cpc'[Creator] \in {"idle", "o_wait"}
        /\ call[Creator] = "create"
    BY <1>1 DEF CreateTest, CommandTypeOK, MonitorTrue
  <2>2. UNCHANGED <<pool, monitor, call, issuer, executed>>
    BY <1>1 DEF CreateTest
  <2>3. \A c \in Clients : c # Creator => ret'[c] = ret[c]
    BY <1>1 DEF CreateTest, CommandTypeOK
  <2>4. Alone' /\ Asking'
    BY <2>1, <2>2 DEF Alone, Asking
  <2>5. Pending' /\ Executed'
    BY <2>1, <2>2 DEF Pending, Executed
  <2>6. Own' /\ Quiet'
    BY <2>1, <2>2 DEF Own, Quiet
  <2>7. DoneOnReturn'
    BY <2>1, <2>2, <2>3 DEF DoneOnReturn
  <2> QED
    BY <2>4, <2>5, <2>6, <2>7 DEF Orderly
<1>2. CASE CreateTimeout
  BY <1>2 DEF CreateTimeout
<1>3. ASSUME NEW b \in Clients, NEW k \in {"sizectl", "destroy"}, Begin(b, k)
      PROVE  Orderly' /\ DoneOnReturn'
  <2>1. \A c \in Clients : cpc[c] = "idle"
    BY <1>3 DEF Begin
  <2>2. /\ \A c \in Clients : c # b => cpc'[c] = "idle" /\ executed'[c] = executed[c]
                                    /\ ret'[c] = ret[c] /\ call'[c] = call[c]
        /\ UNCHANGED <<pool, monitor, issuer>>
    BY <1>3, <2>1 DEF Begin, CommandTypeOK
  <2>3. \/ cpc'[b] = "o_lock" /\ pstatus = "READY" /\ executed'[b] = "no"
        \/ cpc'[b] = "idle" /\ ret'[b] = "SYSERROR"
    BY <1>3 DEF Begin, CommandTypeOK
  <2>4. Alone'
    BY <2>2 DEF Alone
  <2>5. Asking' /\ Own' /\ Quiet'
    BY <2>1, <2>2, <2>3 DEF Asking, Own, Quiet
  <2>6. Pending' /\ Executed'
    BY <2>1, <2>2 DEF Pending, Executed
  <2>7. DoneOnReturn'
    BY <2>1, <2>2, <2>3 DEF DoneOnReturn
  <2> QED
    BY <2>4, <2>5, <2>6, <2>7 DEF Orderly
<1>4. ASSUME NEW b \in Clients, SetCommand(b) PROVE Orderly' /\ DoneOnReturn'
  <2>1. /\ cpc[b] = "o_lock" /\ cpc'[b] = "i_test" /\ result = "NONE"
        /\ executed[b] = "no" /\ pstatus = "READY"
        /\ \A c \in Clients : c # b => cpc[c] = "idle" /\ cpc'[c] = "idle"
    BY <1>4 DEF SetCommand, Asking, Alone, CommandTypeOK
  <2>2. mstep' # "result"
    BY <1>4 DEF SetCommand, MonitorTrue
  <2>3. UNCHANGED <<pstatus, result, call, ret, executed>> /\ issuer' = b
    BY <1>4 DEF SetCommand
  <2>4. /\ command' = "SIZECTL" => iargs' = b
        /\ command' = "DESTROY" <=> call[b] = "destroy"
    BY <1>4 DEF SetCommand
  <2>5. Alone' /\ Asking' /\ Own' /\ Quiet'
    BY <2>1, <2>3 DEF Alone, Asking, Own, Quiet
  <2>6. Pending' /\ Executed'
    BY <2>1, <2>2, <2>3, <2>4 DEF Pending, Executed
  <2>7. DoneOnReturn'
    BY <2>1, <2>3 DEF DoneOnReturn
  <2> QED
    BY <2>5, <2>6, <2>7 DEF Orderly
<1>5. ASSUME NEW b \in Clients, AwaitResult(b) \/ SpuriousWake(b)
      PROVE  Orderly' /\ DoneOnReturn'
  <2>1. Waits(b) /\ \A c \in Clients : c # b => cpc[c] = "idle" /\ cpc'[c] = "idle"
    BY <1>5 DEF AwaitResult, SpuriousWake, End, Alone, CommandTypeOK
  <2>2. CASE /\ cpc'[b] \in {"i_test", "i_wait"}
             /\ UNCHANGED <<pool, monitor, call, ret, issuer, executed>>
    <3>1. Alone' /\ Asking' /\ Own' /\ Quiet'
      BY <2>1, <2>2 DEF Alone, Asking, Own, Quiet
    <3>2. Pending' /\ Executed'
      BY <2>1, <2>2 DEF Pending, Executed
    <3>3. DoneOnReturn'
      BY <2>1, <2>2 DEF DoneOnReturn
    <3> QED
      BY <3>1, <3>2, <3>3 DEF Orderly
  <2>3. CASE result # "NONE" /\ End(b)
    <3>1. \A c \in Clients : cpc'[c] = "idle"
      BY <2>1, <2>3 DEF End, CommandTypeOK
    <3>2. executed[b] # "no" /\ (call[b] = "destroy" => pstatus = "UNAVAILABLE")
      BY <2>1, <2>3 DEF Own
    <3>3. UNCHANGED <<pstatus, command, monitor, call, issuer, executed>>
      BY <2>3 DEF End
    <3>4. command = "NONE" \/ mstep \in {"result", "clear"}
      BY <2>3 DEF Pending
    <3>5. mstep # "result"
      BY <2>3 DEF Executed
    <3>6. pstatus = "READY" => result' = "NONE"
      BY <2>3, <3>2 DEF End
    <3>7. \A c \in Clients : c # b => ret'[c] = ret[c]
      BY <2>3 DEF End, CommandTypeOK
    <3>8. Alone' /\ Asking' /\ Own' /\ Quiet'
      BY <3>1, <3>3, <3>6 DEF Alone, Asking, Own, Quiet
    <3>9. Pending' /\ Executed'
      BY <3>3, <3>4, <3>5 DEF Pending, Executed
    <3>10. DoneOnReturn'
      BY <2>1, <3>2, <3>3, <3>7 DEF DoneOnReturn
    <3> QED
      BY <3>8, <3>9, <3>10 DEF Orderly
  <2> QED
    BY <1>5, <2>2, <2>3 DEF AwaitResult, SpuriousWake, CommandTypeOK
<1>6. ASSUME NEW b \in Clients, ResultTimeout(b) PROVE Orderly' /\ DoneOnReturn'
  BY <1>6 DEF ResultTimeout
<1>7. CASE Created
  <2>1. /\ \A c \in Clients : cpc'[c] = cpc[c]
                              \/ (cpc[c] = "o_wait" /\ cpc'[c] = "o_test")
        /\ mstep = "create" /\ mstep' \in {"lock", "failed"} /\ result = "NONE"
        /\ pstatus = "INIT"
        /\ UNCHANGED <<command, iargs, result, call, ret, issuer, executed>>
    <3>1. \A c \in Clients :
              cpc'[c] = cpc[c] \/ (cpc[c] = "o_wait" /\ cpc'[c] = "o_test")
      BY <1>7 DEF Created, CommandTypeOK
    <3> QED
      BY <1>7, <3>1 DEF Created, MonitorTrue
  <2>2. Alone' /\ Asking' /\ Own' /\ Quiet'
    BY <2>1 DEF Alone, Asking, Own, Quiet
  <2>3. Pending' /\ Executed'
    BY <2>1 DEF Pending, Executed, CommandTypeOK
  <2>4. DoneOnReturn'
    BY <2>1 DEF DoneOnReturn
  <2> QED
    BY <2>2, <2>3, <2>4 DEF Orderly
<1>8. CASE MonitorLock \/ Load \/ MonitorTest \/ Wild
  <2>1. /\ UNCHANGED <<pool, cpc, call, ret, issuer, executed>>
        /\ mstep \notin {"result", "clear"} /\ mstep' # "result"
    BY <1>8 DEF MonitorLock, Load, MonitorTest, Wild, ArgumentGone
  <2>2. Alone' /\ Asking' /\ Own' /\ Quiet'
    BY <2>1 DEF Alone, Asking, Own, Quiet
  <2>3. Pending' /\ Executed' /\ DoneOnReturn'
    BY <2>1 DEF Pending, Executed, DoneOnReturn
  <2> QED
    BY <2>2, <2>3 DEF Orderly
<1>9. ASSUME NEW r \in Results, Execute(r) PROVE Orderly' /\ DoneOnReturn'
  <2>1. /\ issuer \in Clients /\ Waits(issuer) /\ executed[issuer] = "no"
        /\ command = "DESTROY" <=> call[issuer] = "destroy"
        /\ result = "NONE"
    BY <1>9 DEF Execute, Pending, MonitorTrue
  <2>2. /\ UNCHANGED <<command, iargs, result, cpc, call, ret, issuer>>
        /\ mstep' = "result"
        /\ pstatus' = IF command = "DESTROY" THEN "UNAVAILABLE" ELSE pstatus
    BY <1>9 DEF Execute
  <2>3. /\ executed'[issuer] # "no"
        /\ \A c \in Clients : c # issuer => executed'[c] = executed[c] /\ cpc[c] = "idle"
    BY <1>9, <2>1 DEF Execute, CommandTypeOK, Results, Alone
  <2>4. Alone' /\ Asking' /\ Own' /\ Quiet'
    BY <2>1, <2>2, <2>3 DEF Alone, Asking, Own, Quiet
  <2>5. Pending' /\ Executed'
    BY <2>1, <2>2, <2>3 DEF Pending, Executed
  <2>6. DoneOnReturn'
    BY <2>1, <2>2, <2>3 DEF DoneOnReturn
  <2> QED
    BY <2>4, <2>5, <2>6 DEF Orderly
<1>10. CASE Result
  <2>1. /\ issuer \in Clients /\ Waits(issuer) /\ executed[issuer] # "no"
        /\ call[issuer] = "destroy" => pstatus = "UNAVAILABLE"
    BY <1>10 DEF Result, Executed
  <2>2. /\ UNCHANGED <<pstatus, command, call, ret, issuer, executed>>
        /\ mstep' = "clear"
    BY <1>10 DEF Result
  <2>3. \A c \in Clients : /\ c # issuer => cpc[c] = "idle"
                           /\ cpc'[c] = cpc[c] \/ (cpc[c] = "i_wait" /\ cpc'[c] = "i_test")
    BY <1>10, <2>1 DEF Result, Alone, CommandTypeOK
  <2>4. Waits(issuer)' /\ \A c \in Clients : c # issuer => cpc'[c] = "idle"
    BY <2>1, <2>2, <2>3
  <2>5. Alone' /\ Asking' /\ Own' /\ Quiet'
    BY <2>1, <2>2, <2>4 DEF Alone, Asking, Own, Quiet
  <2>6. Pending' /\ Executed'
    BY <2>2 DEF Pending, Executed
  <2>7. DoneOnReturn'
    BY <2>1, <2>2, <2>3, <2>4 DEF DoneOnReturn
  <2> QED
    BY <2>5, <2>6, <2>7 DEF Orderly
<1>11. CASE Clear
  <2>1. /\ UNCHANGED <<pstatus, result, cpc, call, ret, issuer, executed>>
        /\ command' = "NONE" /\ mstep' # "result"
    BY <1>11 DEF Clear
  <2>2. Alone' /\ Asking' /\ Own' /\ Quiet'
    BY <2>1 DEF Alone, Asking, Own, Quiet
  <2>3. Pending' /\ Executed' /\ DoneOnReturn'
    BY <2>1 DEF Pending, Executed, DoneOnReturn
  <2> QED
    BY <2>2, <2>3 DEF Orderly
<1>12. CASE UNCHANGED commandVars
  <2>1. UNCHANGED <<pool, monitor, cpc, call, ret, issuer, executed, crossed>>
    BY <1>12 DEF commandVars
  <2>2. Alone' /\ Asking' /\ Own' /\ Quiet'
    BY <2>1 DEF Alone, Asking, Own, Quiet
  <2>3. Pending' /\ Executed' /\ DoneOnReturn'
    BY <2>1 DEF Pending, Executed, DoneOnReturn
  <2> QED
    BY <2>2, <2>3 DEF Orderly
<1> QED
  BY <1>1, <1>2, <1>3, <1>4, <1>5, <1>6, <1>7, <1>8, <1>9, <1>10, <1>11, <1>12
     DEF CommandNext, ClientStep, MonitorStep

-----------------------------------------------------------------------------
LEMMA Initially == CommandInit("o_test", "create") => CommandIInv
<1> SUFFICES ASSUME CommandInit("o_test", "create") PROVE CommandIInv
  OBVIOUS
<1> USE CommandAssumption DEF CommandInit
<1>1. CommandTypeOK
  BY DEF CommandTypeOK, Results
<1>2. MonitorTrue
  BY DEF MonitorTrue
<1>3. Orderly /\ DoneOnReturn
  BY DEF Orderly, Alone, Asking, Pending, Executed, Own, Quiet, DoneOnReturn, Waits
<1> QED
  BY <1>1, <1>2, <1>3 DEF CommandIInv

LEMMA Inductive == CommandIInv /\ [CommandNext]_commandVars => CommandIInv'
  BY CommandTypeStep, MonitorTrueStep, CrossedStays, OrderlyStep DEF CommandIInv

\* A call returns with its own command carried out, and what the monitor reads for a
\* change of size has not been freed (Tpool_sizectl and Tpool_destroy), for any
\* number of clients, as long as calls are made one at a time and none times out.
THEOREM CommandHolds == CommandSpec => []CommandSound
<1>1. CommandIInv => CommandSound
  <2>1. CommandIInv => ArgumentAlive
    BY CommandAssumption DEF CommandIInv, Orderly, Pending, ArgumentAlive, ArgumentGone
  <2> QED
    BY <2>1 DEF CommandIInv, CommandSound, DoneOnReturn
<1> QED
  BY <1>1, Initially, Inductive, PTL DEF CommandSpec

\* The monitor carries out a command once: it resets it before it lets olock go
\* (Tpool_monitor), for any number of clients, as long as calls are made one at a
\* time and none times out.
THEOREM CommandOnce == CommandSpec => ExecutedOnce
<1> DEFINE A == ~crossed' => \A c \in Clients :
                   executed[c] # "no" => executed'[c] \in {executed[c], "no"}
<1>1. CommandIInv /\ [CommandNext]_commandVars => [A]_commandVars
  <2> SUFFICES ASSUME CommandIInv, CommandNext, ~crossed', NEW c \in Clients, executed[c] # "no"
               PROVE  executed'[c] \in {executed[c], "no"}
    BY DEF CommandIInv
  <2> ~crossed /\ Pending /\ MonitorTrue /\ CommandTypeOK
    BY CrossedStays DEF CommandIInv, Orderly
  <2>1. ASSUME NEW r \in Results, Execute(r) PROVE executed'[c] = executed[c]
    <3>1. issuer \in Clients /\ executed[issuer] = "no"
      BY <2>1 DEF Execute, Pending, MonitorTrue
    <3> QED
      BY <2>1, <3>1 DEF Execute, CommandTypeOK
  <2>2. ASSUME NEW b \in Clients, NEW k \in {"sizectl", "destroy"}, Begin(b, k)
        PROVE  executed'[c] \in {executed[c], "no"}
    BY <2>2 DEF Begin, CommandTypeOK
  <2> QED
    BY <2>1, <2>2
       DEF CommandNext, ClientStep, MonitorStep, callHistory, CreateTest, CreateTimeout,
           SetCommand, AwaitResult, ResultTimeout, End, SpuriousWake, Created,
           MonitorLock, Load, MonitorTest, Wild, Result, Clear
<1> QED
  BY <1>1, Initially, Inductive, PTL DEF CommandSpec, ExecutedOnce

=============================================================================
