--------------------------- MODULE ProcPoolProofs ---------------------------
(***************************************************************************)
(* The manager of the process pool and its handlers: the counters of the   *)
(* pool are those of the list, and a shrink spares who works, for any      *)
(* number of children and samples and however deep the handlers nest.      *)
(***************************************************************************)
EXTENDS ProcPool, FiniteSetTheorems, SequenceTheorems, TLAPS

(***************************************************************************)
(* The inductive invariant, part by part.                                  *)
(***************************************************************************)
\* What child_init and the handlers do, what the loop of the manager does, and what
\* both do when they count.
HandlerDoes == {"fork", "wait", "add", "failing", "reap", "average"}
LoopDoes == {"register", "build", "listen", "blocked", "parent", "walk", "told", "lost", "dying"}
CountDoes == {"readall", "writeall", "readfree", "writefree"}
Statuses == {READY, WORK, DEAD}
Bytes == {<<>>, <<READY>>, <<WORK>>}
Lives == {"none", "forked", "idle", "busy", "zombie", "reaped"}
Signs == {-1, 0, 1}
Frames == [do : HandlerDoes \cup LoopDoes \cup CountDoes, sig : {"none", "chld", "usr1", "alrm"},
           todo : Int, kid : Kids \cup {0}, set : SUBSET (Kids \cup {Manager}),
           byte : {"none", READY, WORK}, all : Signs, free : Signs, read : Int]

PoolTyped ==
    /\ stack \in Seq(Frames) /\ list \in Seq([kid : Kids, status : Statuses])
    /\ child \in [Kids -> Lives] /\ pipe \in [Kids -> Bytes]
    /\ childnum \in Int /\ freechildnum \in Int /\ usr1Pending \in Int
    /\ drift \in {"none", "free", "all"}

\* A frame that has received the registration of a child which is not on the list yet.
Joining(f) == f.do \in CountDoes \cup {"add"} /\ f.all = 1
Joins(f) == f.do = "wait" \/ Joining(f)
InLoop(f) == f.do \in LoopDoes \/ (f.do \in CountDoes /\ f.all # 1)

FrameFits(f) ==
    /\ f.do = "fork" => f.todo >= 0
    /\ f.do \in {"wait", "add"} => f.todo > 0
    /\ f.do = "add" => f.all = 1
    /\ Joining(f) => f.todo > 0 /\ f.byte = READY /\ f.free = 1
    /\ f.do \in {"readall", "writeall"} => f.all # 0
    /\ f.do \in {"readfree", "writefree"} => f.free # 0
    /\ f.do = "told" => f.byte # "none"
    /\ f.do \in {"walk", "told", "lost"} => f.all = 0 /\ f.free = 0

\* The loop is at the bottom of the stack, and handlers above it.
LoopBelow ==
    /\ \A i \in DOMAIN stack : InLoop(stack[i]) <=> i = Len(stack)
    /\ \A i \in DOMAIN stack : FrameFits(stack[i])

\* A child is on the list once.
ListedOnce == \A i, j \in DOMAIN list : list[i].kid = list[j].kid => i = j

\* The children that are being registered, and the messages received but not stored.
Coming == {stack[i].kid : i \in {i \in DOMAIN stack : Joining(stack[i])}}
Told == {stack[i] : i \in {i \in DOMAIN stack : stack[i].do = "told"}}

\* What a child has written that was not read: before its registration and after its
\* removal from the list, between registration and list, and on the list.
Unlisted(k) ==
    /\ child[k] # "busy"
    /\ child[k] = "idle" => pipe[k] = <<READY>>
    /\ child[k] \in {"none", "forked"} => pipe[k] = <<>>
    /\ pipe[k] # <<WORK>>
Joined(k) ==
    /\ child[k] \notin {"none", "forked"} /\ pipe[k] # <<READY>>
    /\ child[k] = "idle" => pipe[k] = <<>>
    /\ child[k] = "busy" => pipe[k] = <<WORK>>
\* What the manager has heard of a child last, b, against what is in the socket.
LastWord(k, b) ==
    /\ pipe[k] # <<b>>
    /\ child[k] = "idle" /\ pipe[k] = <<>> => b = READY
    /\ child[k] = "busy" /\ pipe[k] = <<>> => b = WORK
Known(k, status) ==
    /\ child[k] \notin {"none", "forked"}
    /\ child[k] = "idle" => pipe[k] # <<WORK>>
    /\ child[k] = "busy" => pipe[k] # <<READY>>
    /\ \A t \in Told : t.kid = k => LastWord(k, t.byte) /\ (drift = "none" => t.byte # status)
    /\ (\A t \in Told : t.kid # k) =>
         /\ child[k] = "busy" /\ pipe[k] = <<>> => status # READY
         /\ drift = "none" => LastWord(k, status)
    /\ drift = "none" => status # DEAD
KidsTrue ==
    /\ \A k \in Kids \ Listed : IF k \in Coming THEN Joined(k) ELSE Unlisted(k)
    /\ \A i \in DOMAIN list : Known(list[i].kid, list[i].status)

\* A child whose registration is awaited or counted is not on the list, nor is it
\* registered twice.
Awaited ==
    /\ \A i \in DOMAIN stack : Joins(stack[i]) =>
          stack[i].kid \in Kids \ Listed /\ child[stack[i].kid] # "none"
    /\ \A i, j \in DOMAIN stack :
          Joins(stack[i]) /\ Joins(stack[j]) /\ stack[i].kid = stack[j].kid => i = j

\* What the loop found to be read is there, or the child has ended; the child that
\* it attends to is on the list.
Found(f) ==
    /\ \A k \in f.set \cap Kids :
          /\ child[k] \notin {"none", "forked"}
          /\ \A j \in DOMAIN stack : Joins(stack[j]) => stack[j].kid # k
          /\ f.do \notin {"listen", "blocked"} => pipe[k] # <<>> \/ ~Alive(k)
    /\ f.do \in {"told", "lost"} => f.kid \in Listed
    /\ f.do = "lost" => ~Alive(f.kid) /\ pipe[f.kid] = <<>>
FoundTrue == \A i \in DOMAIN stack : Found(stack[i])

\* What a frame has still to add to the counters, and to the list.
ToAll(f) == IF f.do \in {"readall", "writeall"} THEN f.all ELSE 0
ToFree(f) == IF f.do \in CountDoes THEN f.free ELSE 0
ToList(f) == IF Joining(f) THEN 1 ELSE 0
CountersTrue ==
    /\ Len(list) = Cardinality(Listed)
    /\ stack # <<>> /\ ~Storing =>
         /\ drift # "all" => childnum = Len(list)
         /\ drift = "none" => freechildnum = Cardinality(Free)
    /\ \A i \in DOMAIN stack : Counting(stack[i]) =>
         /\ drift # "all" =>
              /\ \A j \in DOMAIN stack : Counting(stack[j]) => i = j
              /\ childnum + ToAll(stack[i]) = Len(list) + ToList(stack[i])
              /\ stack[i].do = "writeall" => stack[i].read = childnum
         /\ drift = "none" =>
              /\ freechildnum + ToFree(stack[i]) = Cardinality(Free) + ToList(stack[i])
              /\ stack[i].do = "writefree" => stack[i].read = freechildnum

\* Who was on the list when the manager began to end is dead.
EndTrue ==
    /\ stack = <<>> <=> gone # "no"
    /\ Ending \/ gone \in {"register", "destroy"} => \A k \in Listed \ late : ~Alive(k)

PoolIInv ==
    /\ PoolTyped /\ LoopBelow /\ ListedOnce /\ (stack # <<>> => KidsTrue) /\ Awaited /\ FoundTrue
    /\ CountersTrue /\ EndTrue


-----------------------------------------------------------------------------
(***************************************************************************)
(* Sequences: one element more in front, the first replaced or gone, and   *)
(* one left out.                                                           *)
(***************************************************************************)
LEMMA InFront ==
  ASSUME NEW S, NEW x \in S, NEW s \in Seq(S)
  PROVE  /\ <<x>> \o s \in Seq(S) /\ Len(<<x>> \o s) = Len(s) + 1 /\ (<<x>> \o s)[1] = x
         /\ \A n \in 1 .. Len(s) : (<<x>> \o s)[n + 1] = s[n]
<1>1. <<x>> \in Seq(S) /\ Len(<<x>>) = 1 /\ <<x>>[1] = x
  OBVIOUS
<1>2. Len(s) \in Nat
  OBVIOUS
<1> DEFINE first == <<x>>
<1> DEFINE whole == first \o s
<1>3. /\ whole \in Seq(S) /\ Len(whole) = 1 + Len(s)
      /\ \A n \in 1 .. 1 + Len(s) : whole[n] = IF n <= 1 THEN first[n] ELSE s[n - 1]
  <2> HIDE DEF first
  <2> QED BY <1>1, ConcatProperties DEF first
<1>4. first[1] = x
  BY <1>1
<1> HIDE DEF first, whole
<1>5. whole[1] = x
  BY <1>2, <1>3, <1>4
<1>6. \A n \in 1 .. Len(s) : whole[n + 1] = s[n]
  BY <1>2, <1>3
<1>7. whole \in Seq(S) /\ Len(whole) = Len(s) + 1
  BY <1>2, <1>3
<1> QED BY <1>5, <1>6, <1>7 DEF first, whole

LEMMA BehindHead ==
  ASSUME NEW S, NEW s \in Seq(S), s # <<>>
  PROVE  /\ Head(s) = s[1] /\ Head(s) \in S /\ 1 \in DOMAIN s
         /\ Tail(s) \in Seq(S) /\ Len(Tail(s)) = Len(s) - 1 /\ Len(s) \in Nat \ {0}
         /\ \A n \in 1 .. Len(s) - 1 : Tail(s)[n] = s[n + 1]
<1>1. Len(s) \in Nat \ {0} /\ DOMAIN s = 1 .. Len(s)
  BY EmptySeq
<1> QED
  BY <1>1, HeadTailProperties

LEMMA HeadReplaced ==
  ASSUME NEW S, NEW s \in Seq(S), s # <<>>, NEW x \in S,
         NEW t, t = <<x>> \o Tail(s)
  PROVE  /\ t \in Seq(S) /\ Len(t) = Len(s) /\ t[1] = x
         /\ \A n \in 1 .. Len(s) : n # 1 => t[n] = s[n]
<1>1. /\ Tail(s) \in Seq(S) /\ Len(Tail(s)) = Len(s) - 1 /\ Len(s) \in Nat \ {0}
      /\ \A n \in 1 .. Len(s) - 1 : Tail(s)[n] = s[n + 1]
  BY BehindHead
<1>2. /\ t \in Seq(S) /\ Len(t) = Len(Tail(s)) + 1 /\ t[1] = x
      /\ \A n \in 1 .. Len(Tail(s)) : t[n + 1] = Tail(s)[n]
  BY <1>1, InFront
<1>3. ASSUME NEW n \in 1 .. Len(s), n # 1 PROVE t[n] = s[n]
  <2>1. n - 1 \in 1 .. Len(s) - 1 /\ n = (n - 1) + 1
    BY <1>1, <1>3
  <2> QED
    BY <1>1, <1>2, <2>1
<1> QED
  BY <1>1, <1>2, <1>3

LEMMA Without ==
  ASSUME NEW S, NEW s \in Seq(S), NEW i \in DOMAIN s
  PROVE  /\ RemoveAt(s, i) \in Seq(S) /\ Len(RemoveAt(s, i)) = Len(s) - 1
         /\ \A n \in 1 .. Len(s) - 1 : RemoveAt(s, i)[n] = IF n < i THEN s[n] ELSE s[n + 1]
<1> DEFINE a == SubSeq(s, 1, i - 1)
           b == SubSeq(s, i + 1, Len(s))
<1>1. Len(s) \in Nat /\ i \in 1 .. Len(s) /\ DOMAIN s = 1 .. Len(s)
  OBVIOUS
<1>2. a \in Seq(S) /\ Len(a) = i - 1 /\ \A n \in 1 .. i - 1 : a[n] = s[n]
  BY <1>1, SubSeqProperties
<1>3. b \in Seq(S) /\ Len(b) = Len(s) - i /\ \A n \in 1 .. Len(s) - i : b[n] = s[n + i]
  BY <1>1, SubSeqProperties
<1>4. RemoveAt(s, i) = a \o b
  BY DEF RemoveAt
<1> HIDE DEF a, b
<1>5. /\ a \o b \in Seq(S) /\ Len(a \o b) = Len(s) - 1
      /\ \A n \in 1 .. Len(s) - 1 : (a \o b)[n] = IF n <= i - 1 THEN a[n] ELSE b[n - (i - 1)]
  <2>1. /\ a \o b \in Seq(S) /\ Len(a \o b) = Len(a) + Len(b)
        /\ \A n \in 1 .. Len(a) + Len(b) : (a \o b)[n] = IF n <= Len(a) THEN a[n] ELSE b[n - Len(a)]
    BY <1>2, <1>3, ConcatProperties
  <2>2. Len(a) = i - 1 /\ Len(a) + Len(b) = Len(s) - 1
    BY <1>1, <1>2, <1>3
  <2> QED
    BY <2>1, <2>2
<1>6. ASSUME NEW n \in 1 .. Len(s) - 1 PROVE (a \o b)[n] = IF n < i THEN s[n] ELSE s[n + 1]
  <2>1. CASE n < i
    BY <1>1, <1>2, <1>5, <2>1
  <2>2. CASE ~(n < i)
    <3>1. PICK m \in 1 .. Len(s) - i : m = n - (i - 1)
      BY <1>1, <2>2
    <3>2. b[m] = s[m + i] /\ m + i = n + 1
      BY <1>1, <1>3, <3>1
    <3>3. (a \o b)[n] = b[m]
      BY <1>1, <1>5, <2>2, <3>1
    <3> QED
      BY <2>2, <3>2, <3>3
  <2> QED
    BY <2>1, <2>2
<1> QED
  BY <1>4, <1>5, <1>6
-----------------------------------------------------------------------------
(***************************************************************************)
(* Frames and the stack: what a step carries over to the next one.         *)
(***************************************************************************)
Stacked == stack \in Seq(Frames) /\ LoopBelow

\* A frame that neither registers, receives, counts nor ends.
Plain(f) == f.do \in {"fork", "reap", "average", "register", "build", "listen", "blocked", "parent", "walk"}

\* Beyond the first n frames, which are new, the stack is what it was d deeper, but
\* for a wait that was interrupted; what is not there any more is plain.
Carries(n, d) ==
    /\ Len(stack') = Len(stack) - d
    /\ \A i \in DOMAIN stack' : i > n =>
         /\ i + d \in DOMAIN stack
         /\ \/ stack'[i] = stack[i + d]
            \/ stack'[i] = Frame("build") /\ stack[i + d].do = "blocked"
    /\ \A j \in DOMAIN stack : Plain(stack[j]) \/ j - d > n

\* What is known of the kinds of frames by their names.
LEMMA Kinds ==
  ASSUME NEW f
  PROVE  /\ Plain(f) => ~Joins(f) /\ ~Joining(f) /\ ~Counting(f) /\ f.do \notin {"told", "lost", "dying", "failing"}
         /\ Joins(f) => ~InLoop(f)
BY DEF Plain, Joins, Joining, Counting, InLoop, CountDoes, LoopDoes

LEMMA NewFrame ==
  ASSUME NEW do \in HandlerDoes \cup LoopDoes
  PROVE  /\ Frame(do) \in Frames /\ Frame(do).do = do /\ Frame(do).set = {} /\ Frame(do).todo = 0
         /\ Frame(do).all = 0 /\ Frame(do).free = 0 /\ Frame(do).sig = "none"
BY DEF Frame, Frames, Signs

LEMMA BuildFrame ==
  /\ Frame("build") \in Frames /\ Frame("build").do = "build" /\ Frame("build").set = {}
  /\ InLoop(Frame("build")) /\ FrameFits(Frame("build")) /\ Plain(Frame("build"))
<1>1. Frame("build") \in Frames /\ Frame("build").do = "build" /\ Frame("build").set = {}
  BY NewFrame DEF LoopDoes
<1> QED
  BY <1>1 DEF InLoop, LoopDoes, FrameFits, Joining, CountDoes, Plain

LEMMA Domains ==
  ASSUME NEW s \in Seq(Frames)
  PROVE  Len(s) \in Nat /\ DOMAIN s = 1 .. Len(s) /\ (s # <<>> <=> Len(s) > 0)
BY EmptySeq

LEMMA TopFrame ==
  ASSUME Stacked, stack # <<>>
  PROVE  /\ Top = stack[1] /\ Top \in Frames /\ 1 \in DOMAIN stack /\ FrameFits(Top)
         /\ Len(stack) \in Nat \ {0} /\ DOMAIN stack = 1 .. Len(stack)
BY BehindHead, Domains DEF Stacked, Top, LoopBelow

\* Only the first frame is another one.
LEMMA Replaced ==
  ASSUME Stacked, stack # <<>>, NEW f \in Frames, Replace(f),
         InLoop(f) <=> InLoop(Top), FrameFits(f)
  PROVE  /\ Stacked' /\ stack' # <<>> /\ DOMAIN stack' = DOMAIN stack /\ 1 \in DOMAIN stack
         /\ stack'[1] = f /\ Top = stack[1]
         /\ \A n \in DOMAIN stack : n # 1 => stack'[n] = stack[n]
<1>1. /\ stack' \in Seq(Frames) /\ Len(stack') = Len(stack) /\ stack'[1] = f
      /\ \A n \in 1 .. Len(stack) : n # 1 => stack'[n] = stack[n]
  BY HeadReplaced DEF Stacked, Replace
<1>2. Top = stack[1] /\ Len(stack) \in Nat \ {0} /\ DOMAIN stack = 1 .. Len(stack) /\ 1 \in DOMAIN stack
  BY TopFrame
<1>3. DOMAIN stack' = DOMAIN stack /\ stack' # <<>>
  BY <1>1, <1>2, Domains, EmptySeq
<1>4. LoopBelow'
  <2>1. \A i \in DOMAIN stack' : InLoop(stack'[i]) <=> i = Len(stack')
    BY <1>1, <1>2, <1>3 DEF Stacked, LoopBelow
  <2>2. \A i \in DOMAIN stack' : FrameFits(stack'[i])
    BY <1>1, <1>2, <1>3 DEF Stacked, LoopBelow
  <2> QED
    BY <2>1, <2>2 DEF LoopBelow
<1> QED
  BY <1>1, <1>2, <1>3, <1>4 DEF Stacked

LEMMA Popped ==
  ASSUME Stacked, stack # <<>>, stack' = Tail(stack), Top.do \in {"fork", "reap", "average"}
  PROVE  Stacked' /\ stack' # <<>> /\ Carries(0, 1)
<1>1. /\ Tail(stack) \in Seq(Frames) /\ Len(Tail(stack)) = Len(stack) - 1 /\ Len(stack) \in Nat \ {0}
      /\ \A n \in 1 .. Len(stack) - 1 : Tail(stack)[n] = stack[n + 1]
      /\ Top = stack[1] /\ 1 \in DOMAIN stack
  BY BehindHead DEF Stacked, Top
<1>2. DOMAIN stack = 1 .. Len(stack) /\ DOMAIN stack' = 1 .. Len(stack) - 1
  BY <1>1, Domains DEF Stacked
<1>3. Len(stack) # 1
  BY <1>1 DEF Stacked, LoopBelow, InLoop, LoopDoes, CountDoes
<1>4. stack' # <<>>
  <2>1. Len(Tail(stack)) > 0
    BY <1>1, <1>3
  <2> QED
    BY <1>1, <2>1, Domains
<1>5. LoopBelow'
  <2>1. \A i \in DOMAIN stack' : InLoop(stack'[i]) <=> i = Len(stack')
    BY <1>1, <1>2 DEF Stacked, LoopBelow
  <2>2. \A i \in DOMAIN stack' : FrameFits(stack'[i])
    BY <1>1, <1>2 DEF Stacked, LoopBelow
  <2> QED
    BY <2>1, <2>2 DEF LoopBelow
<1>6. Carries(0, 1)
  <2>1. \A i \in DOMAIN stack' : i > 0 => i + 1 \in DOMAIN stack /\ stack'[i] = stack[i + 1]
    BY <1>1, <1>2
  <2>2. \A j \in DOMAIN stack : Plain(stack[j]) \/ j - 1 > 0
    BY <1>1, <1>2 DEF Plain
  <2> QED
    BY <1>1, <2>1, <2>2 DEF Carries
<1> QED
  BY <1>1, <1>4, <1>5, <1>6 DEF Stacked

LEMMA WokenUp ==
  ASSUME Stacked, stack # <<>>, NEW g, g = Interrupted
  PROVE  /\ g \in Seq(Frames) /\ Len(g) = Len(stack)
         /\ \A i \in 1 .. Len(stack) :
              \/ g[i] = stack[i]
              \/ g[i] = Frame("build") /\ stack[i].do = "blocked"
<1>1. Top = stack[1] /\ Len(stack) \in Nat \ {0}
  BY TopFrame
<1>2. CASE Top.do = "blocked"
  <2>1. Frame("build") \in Frames
    BY BuildFrame
  <2>2. g = <<Frame("build")>> \o Tail(stack)
    BY <1>2 DEF Interrupted
  <2>3. /\ g \in Seq(Frames) /\ Len(g) = Len(stack) /\ g[1] = Frame("build")
        /\ \A n \in 1 .. Len(stack) : n # 1 => g[n] = stack[n]
    BY <2>1, <2>2, HeadReplaced DEF Stacked
  <2> QED
    BY <1>1, <1>2, <2>3
<1>3. CASE Top.do # "blocked"
  BY <1>3 DEF Interrupted, Stacked
<1> QED
  BY <1>2, <1>3

LEMMA Pushed ==
  ASSUME Stacked, stack # <<>>, NEW f \in Frames, stack' = <<f>> \o Interrupted,
         ~InLoop(f), FrameFits(f)
  PROVE  Stacked' /\ stack' # <<>> /\ stack'[1] = f /\ Carries(1, -1)
<1>1. PICK g : g = Interrupted
  OBVIOUS
<1>2. /\ g \in Seq(Frames) /\ Len(g) = Len(stack)
      /\ \A i \in 1 .. Len(stack) :
           g[i] = stack[i] \/ (g[i] = Frame("build") /\ stack[i].do = "blocked")
  BY <1>1, WokenUp
<1>3. /\ stack' \in Seq(Frames) /\ Len(stack') = Len(stack) + 1 /\ stack'[1] = f
      /\ \A n \in 1 .. Len(stack) : stack'[n + 1] = g[n]
  BY <1>1, <1>2, InFront
<1>4. Len(stack) \in Nat \ {0} /\ DOMAIN stack = 1 .. Len(stack) /\ DOMAIN stack' = 1 .. Len(stack) + 1
  BY <1>3, Domains, TopFrame
<1>5. stack' # <<>>
  BY <1>3, <1>4, EmptySeq
<1>6. ASSUME NEW i \in DOMAIN stack', i # 1
      PROVE  /\ i - 1 \in DOMAIN stack
             /\ \/ stack'[i] = stack[i - 1]
                \/ stack'[i] = Frame("build") /\ stack[i - 1].do = "blocked"
  <2>1. i - 1 \in 1 .. Len(stack) /\ (i - 1) + 1 = i
    BY <1>4, <1>6
  <2> QED
    BY <1>2, <1>3, <1>4, <2>1
<1>7. LoopBelow'
  <2>1. ASSUME NEW i \in DOMAIN stack', i # 1
        PROVE  /\ InLoop(stack'[i]) <=> i = Len(stack')
               /\ FrameFits(stack'[i])
    <3>1. /\ InLoop(stack[i - 1]) <=> i - 1 = Len(stack)
          /\ FrameFits(stack[i - 1])
      BY <1>6, <2>1 DEF Stacked, LoopBelow
    <3>2. i - 1 = Len(stack) <=> i = Len(stack')
      BY <1>3, <1>4
    <3>3. stack[i - 1].do = "blocked" => InLoop(stack[i - 1])
      BY DEF InLoop, LoopDoes
    <3> QED
      BY <1>6, <2>1, <3>1, <3>2, <3>3, BuildFrame
  <2>2. 1 # Len(stack')
    BY <1>3, <1>4
  <2> QED
    BY <1>3, <2>1, <2>2 DEF LoopBelow
<1>8. Carries(1, -1)
  <2>1. \A i \in DOMAIN stack' : i > 1 =>
          /\ i + (-1) \in DOMAIN stack
          /\ stack'[i] = stack[i + (-1)] \/ (stack'[i] = Frame("build") /\ stack[i + (-1)].do = "blocked")
    <3> SUFFICES ASSUME NEW i \in DOMAIN stack', i > 1
                 PROVE  /\ i + (-1) \in DOMAIN stack
                        /\ \/ stack'[i] = stack[i + (-1)]
                           \/ stack'[i] = Frame("build") /\ stack[i + (-1)].do = "blocked"
      OBVIOUS
    <3>1. i # 1 /\ i + (-1) = i - 1
      BY <1>4
    <3> QED
      BY <1>6, <3>1
  <2>2. \A j \in DOMAIN stack : j - (-1) > 1
    BY <1>4
  <2>3. Len(stack') = Len(stack) - (-1)
    BY <1>3, <1>4
  <2> QED
    BY <2>1, <2>2, <2>3 DEF Carries
<1> QED
  BY <1>3, <1>5, <1>7, <1>8 DEF Stacked

LEMMA OnlyWokenUp ==
  ASSUME Stacked, stack # <<>>, stack' = Interrupted
  PROVE  Stacked' /\ stack' # <<>> /\ Carries(0, 0)
<1>1. /\ stack' \in Seq(Frames) /\ Len(stack') = Len(stack)
      /\ \A i \in 1 .. Len(stack) :
           stack'[i] = stack[i] \/ (stack'[i] = Frame("build") /\ stack[i].do = "blocked")
  BY WokenUp
<1>2. Len(stack) \in Nat \ {0} /\ DOMAIN stack = 1 .. Len(stack) /\ DOMAIN stack' = 1 .. Len(stack)
  BY <1>1, Domains, TopFrame
<1>3. stack' # <<>>
  BY <1>1, <1>2, EmptySeq
<1>4. LoopBelow'
  <2>1. ASSUME NEW i \in DOMAIN stack'
        PROVE  /\ InLoop(stack'[i]) <=> i = Len(stack')
               /\ FrameFits(stack'[i])
    <3>1. /\ InLoop(stack[i]) <=> i = Len(stack)
          /\ FrameFits(stack[i])
      BY <1>2 DEF Stacked, LoopBelow
    <3>2. stack[i].do = "blocked" => InLoop(stack[i])
      BY DEF InLoop, LoopDoes
    <3> QED
      BY <1>1, <1>2, <3>1, <3>2, BuildFrame
  <2> QED
    BY <2>1 DEF LoopBelow
<1>5. Carries(0, 0)
  <2>1. \A i \in DOMAIN stack' : i > 0 => i + 0 \in DOMAIN stack /\
          (stack'[i] = stack[i + 0] \/ (stack'[i] = Frame("build") /\ stack[i + 0].do = "blocked"))
    BY <1>1, <1>2
  <2>2. \A j \in DOMAIN stack : j - 0 > 0
    BY <1>2
  <2>3. Len(stack') = Len(stack) - 0
    BY <1>1, <1>2
  <2> QED
    BY <2>1, <2>2, <2>3 DEF Carries
<1> QED
  BY <1>1, <1>3, <1>4, <1>5 DEF Stacked

LEMMA Stays ==
  ASSUME Stacked, stack # <<>>, stack' = stack
  PROVE  Stacked' /\ stack' # <<>> /\ Carries(0, 0)
<1>1. DOMAIN stack = 1 .. Len(stack) /\ Len(stack) \in Nat
  BY TopFrame
<1>2. \A i \in DOMAIN stack : i + 0 = i /\ i - 0 > 0
  BY <1>1
<1>3. Len(stack') = Len(stack) - 0
  BY <1>1
<1> QED
  BY <1>2, <1>3 DEF Stacked, LoopBelow, Carries

\* What the loop does has nothing above it.
LEMMA Alone ==
  ASSUME Stacked, stack # <<>>, InLoop(Top)
  PROVE  DOMAIN stack = {1} /\ Len(stack) = 1 /\ Tail(stack) = <<>>
<1>1. /\ Top = stack[1] /\ 1 \in DOMAIN stack /\ Len(stack) \in Nat
      /\ Tail(stack) \in Seq(Frames) /\ Len(Tail(stack)) = Len(stack) - 1
  BY BehindHead, TopFrame DEF Stacked, Top
<1>2. Len(stack) = 1
  BY <1>1 DEF Stacked, LoopBelow
<1>3. Tail(stack) = <<>>
  <2>1. PICK t \in Seq(Frames) : t = Tail(stack)
    BY <1>1
  <2>2. Len(t) = 0
    BY <1>1, <1>2, <2>1
  <2> QED
    BY <2>1, <2>2, Domains
<1> QED
  BY <1>2, <1>3, Domains DEF Stacked

LEMMA NoFrame ==
  ASSUME stack' = <<>>
  PROVE  Stacked' /\ DOMAIN stack' = {}
BY DEF Stacked, LoopBelow

-----------------------------------------------------------------------------
(***************************************************************************)
(* The parts of the invariant through a step that leaves the list alone.   *)
(***************************************************************************)
LEMMA Letters ==
  /\ READY # WORK /\ READY # DEAD /\ WORK # DEAD /\ READY # "none" /\ WORK # "none"
  /\ <<READY>> # <<>> /\ <<WORK>> # <<>> /\ <<READY>> # <<WORK>>
  /\ \A b \in {READY, WORK} : Head(<<b>>) = b /\ Tail(<<b>>) = <<>>
<1>1. READY # WORK /\ READY # DEAD /\ WORK # DEAD /\ READY # "none" /\ WORK # "none"
  BY DEF READY, WORK, DEAD
<1>2. ASSUME NEW b PROVE Head(<<b>>) = b /\ Tail(<<b>>) = <<>>
  OBVIOUS
<1> QED
  BY <1>1, <1>2

LEMMA SameList ==
  ASSUME list' = list
  PROVE  Listed' = Listed /\ Free' = Free /\ (ListedOnce => ListedOnce')
BY DEF Listed, Free, ListedOnce

LEMMA Entries ==
  ASSUME PoolTyped
  PROVE  /\ \A i \in DOMAIN list : list[i].kid \in Kids /\ list[i].status \in Statuses
         /\ Len(list) \in Nat /\ DOMAIN list = 1 .. Len(list) /\ Listed \subseteq Kids /\ Free \subseteq Listed
<1>1. \A i \in DOMAIN list : list[i] \in [kid : Kids, status : Statuses]
  <2> DEFINE S == [kid : Kids, status : Statuses]
  <2>1. list \in Seq(S)
    BY DEF PoolTyped
  <2> HIDE DEF S
  <2>2. \A i \in DOMAIN list : list[i] \in S
    BY <2>1
  <2> QED
    BY <2>2 DEF S
<1>2. \A i \in DOMAIN list : list[i].kid \in Kids /\ list[i].status \in Statuses
  BY <1>1
<1>3. Len(list) \in Nat /\ DOMAIN list = 1 .. Len(list)
  BY DEF PoolTyped
<1> QED
  BY <1>2, <1>3 DEF Listed, Free

\* Children may end.
MayEnd ==
    /\ child' \in [Kids -> Lives]
    /\ \A k \in Kids : child'[k] = child[k] \/ (child[k] # "none" /\ child'[k] \in {"zombie", "reaped"})

LEMMA Killed ==
  ASSUME child \in [Kids -> Lives], NEW S, Kill(S)
  PROVE  MayEnd /\ \A k \in S \cap Kids : ~Alive(k)'
BY DEF Kill, MayEnd, Alive, Lives

LEMMA NoneEnds ==
  ASSUME child \in [Kids -> Lives], child' = child
  PROVE  MayEnd
BY DEF MayEnd

LEMMA Ends ==
  ASSUME MayEnd
  PROVE  \A k \in Kids : /\ child[k] # "none" => child'[k] # "none"
                         /\ child[k] \notin {"none", "forked"} => child'[k] \notin {"none", "forked"}
                         /\ ~Alive(k) => ~Alive(k)'
BY DEF MayEnd, Alive

LEMMA KidsKept ==
  ASSUME PoolTyped, KidsTrue, list' = list, pipe' = pipe, drift' = drift, MayEnd,
         Coming' = Coming, Told' = Told
  PROVE  KidsTrue'
<1>1. Listed' = Listed
  BY SameList
<1>2. ASSUME NEW k \in Kids PROVE (Unlisted(k) => Unlisted(k)') /\ (Joined(k) => Joined(k)')
  BY <1>2 DEF Unlisted, Joined, MayEnd
<1>3. ASSUME NEW k \in Kids, NEW b, LastWord(k, b) PROVE LastWord(k, b)'
  BY <1>3 DEF LastWord, MayEnd
<1>4. ASSUME NEW i \in DOMAIN list PROVE Known(list[i].kid, list[i].status)'
  <2>1. PICK k \in Kids, s \in Statuses : k = list[i].kid /\ s = list[i].status
    BY Entries
  <2>2. Known(k, s)
    BY <2>1 DEF KidsTrue
  <2>3. child'[k] = child[k] \/ child'[k] \in {"zombie", "reaped"}
    BY DEF MayEnd
  <2>4. Known(k, s)'
    BY <1>3, <2>2, <2>3 DEF Known
  <2> QED
    BY <2>1, <2>4
<1> QED
  BY <1>1, <1>2, <1>4 DEF KidsTrue

\* A frame that is not plain is carried over, in both directions.
LEMMA Carried ==
  ASSUME Stacked, Stacked', NEW n \in {0, 1}, NEW d \in Int, Carries(n, d),
         \A i \in DOMAIN stack' : i <= n => Plain(stack'[i])
  PROVE  /\ \A i \in DOMAIN stack' : ~Plain(stack'[i]) => i + d \in DOMAIN stack /\ stack'[i] = stack[i + d]
         /\ \A j \in DOMAIN stack : ~Plain(stack[j]) => j - d \in DOMAIN stack' /\ stack'[j - d] = stack[j]
<1>1. /\ DOMAIN stack = 1 .. Len(stack) /\ DOMAIN stack' = 1 .. Len(stack')
      /\ Len(stack) \in Nat /\ Len(stack') \in Nat
  BY Domains DEF Stacked
<1>2. Plain(Frame("build"))
  BY BuildFrame
<1>3. ASSUME NEW i \in DOMAIN stack', ~Plain(stack'[i])
      PROVE  i + d \in DOMAIN stack /\ stack'[i] = stack[i + d]
  <2>1. i > n
    BY <1>1, <1>3
  <2> QED
    BY <1>2, <1>3, <2>1 DEF Carries
<1>4. ASSUME NEW j \in DOMAIN stack, ~Plain(stack[j])
      PROVE  j - d \in DOMAIN stack' /\ stack'[j - d] = stack[j]
  <2>1. j - d > n /\ Len(stack') = Len(stack) - d
    BY <1>4 DEF Carries
  <2>2. PICK i \in Int : i = j - d
    BY <1>1
  <2>3. i \in DOMAIN stack' /\ i > n /\ i + d = j
    BY <1>1, <2>1, <2>2
  <2>4. stack'[i] = stack[j] \/ stack[j].do = "blocked"
    BY <2>3 DEF Carries
  <2> QED
    BY <1>4, <2>2, <2>3, <2>4 DEF Plain
<1> QED
  BY <1>3, <1>4

LEMMA KindsCarried ==
  ASSUME Stacked, Stacked', NEW n \in {0, 1}, NEW d \in Int, Carries(n, d),
         \A i \in DOMAIN stack' : i <= n => Plain(stack'[i])
  PROVE  Coming' = Coming /\ Told' = Told /\ (Storing' <=> Storing) /\ (Ending' <=> Ending)
<1>1. \A i \in DOMAIN stack' : ~Plain(stack'[i]) => i + d \in DOMAIN stack /\ stack'[i] = stack[i + d]
  BY Carried
<1>2. \A j \in DOMAIN stack : ~Plain(stack[j]) => j - d \in DOMAIN stack' /\ stack'[j - d] = stack[j]
  BY Carried
<1>3. Coming' = Coming
  BY <1>1, <1>2, Kinds DEF Coming
<1>4. Told' = Told
  BY <1>1, <1>2, Kinds DEF Told
<1>5. Storing' <=> Storing
  BY <1>1, <1>2, Kinds DEF Storing
<1>6. Ending' <=> Ending
  BY <1>1, <1>2, Kinds DEF Ending
<1> QED
  BY <1>3, <1>4, <1>5, <1>6

-----------------------------------------------------------------------------
(***************************************************************************)
(* Steps of one kind.                                                      *)
(***************************************************************************)
\* Handlers that come and go, and what happens outside: the list stays.
LEMMA HandlersOnly ==
  ASSUME PoolIInv, stack # <<>>, Stacked', stack' # <<>>,
         NEW n \in {0, 1}, NEW d \in Int, Carries(n, d),
         n = 1 => Plain(stack'[1]) /\ stack'[1].set = {},
         list' = list, pipe' = pipe, drift' = drift, childnum' = childnum, late' = late,
         freechildnum' = freechildnum, usr1Pending' \in Int, gone' = gone, MayEnd
  PROVE  PoolIInv'
<1>1. Stacked /\ Listed' = Listed /\ Free' = Free /\ ListedOnce'
  BY SameList DEF PoolIInv, Stacked, PoolTyped
<1>2. PoolTyped' /\ LoopBelow'
  BY DEF PoolIInv, PoolTyped, Stacked, MayEnd
<1>3. /\ DOMAIN stack = 1 .. Len(stack) /\ DOMAIN stack' = 1 .. Len(stack')
      /\ Len(stack) \in Nat /\ Len(stack') \in Nat
  BY <1>1, Domains DEF Stacked
<1>4. \A i \in DOMAIN stack' : i <= n => i = 1 /\ Plain(stack'[i]) /\ stack'[i].set = {}
  BY <1>3
<1>5. \A i \in DOMAIN stack' : ~Plain(stack'[i]) => i + d \in DOMAIN stack /\ stack'[i] = stack[i + d]
  BY <1>1, <1>4, Carried
<1>6. \A j \in DOMAIN stack : ~Plain(stack[j]) => j - d \in DOMAIN stack' /\ stack'[j - d] = stack[j]
  BY <1>1, <1>4, Carried
<1>7. Coming' = Coming /\ Told' = Told /\ (Storing' <=> Storing) /\ (Ending' <=> Ending)
  BY <1>1, <1>4, KindsCarried
<1>8. KidsTrue'
  BY <1>7, KidsKept DEF PoolIInv
<1>9. \A k \in Kids : /\ child[k] # "none" => child'[k] # "none"
                      /\ child[k] \notin {"none", "forked"} => child'[k] \notin {"none", "forked"}
                      /\ ~Alive(k) => ~Alive(k)'
  BY Ends
<1>10. Awaited'
  <2>1. ASSUME NEW i \in DOMAIN stack', Joins(stack'[i])
        PROVE  i + d \in DOMAIN stack /\ stack'[i] = stack[i + d]
    BY <1>5, <2>1, Kinds
  <2>2. ASSUME NEW i \in DOMAIN stack', Joins(stack'[i])
        PROVE  stack'[i].kid \in Kids \ Listed' /\ child'[stack'[i].kid] # "none"
    BY <1>1, <1>9, <2>1, <2>2 DEF PoolIInv, Awaited
  <2>3. ASSUME NEW i \in DOMAIN stack', NEW j \in DOMAIN stack',
               Joins(stack'[i]), Joins(stack'[j]), stack'[i].kid = stack'[j].kid
        PROVE  i = j
    <3>1. i + d = j + d
      BY <2>1, <2>3 DEF PoolIInv, Awaited
    <3> QED
      BY <1>3, <3>1
  <2> QED
    BY <2>2, <2>3 DEF Awaited
<1>11. FoundTrue'
  <2> SUFFICES ASSUME NEW i \in DOMAIN stack' PROVE Found(stack[i])'
    BY DEF FoundTrue
  <2>1. PICK f : f = stack'[i]
    OBVIOUS
  <2>2. CASE f.set = {} /\ Plain(f)
    BY <2>1, <2>2, Kinds DEF Found
  <2>3. CASE i > n /\ i + d \in DOMAIN stack /\ f = stack[i + d]
    <3>1. Found(f)
      BY <2>3 DEF PoolIInv, FoundTrue
    <3>2. ASSUME NEW k \in f.set \cap Kids, NEW j \in DOMAIN stack', Joins(stack'[j])
          PROVE  stack'[j].kid # k
      <4>1. j + d \in DOMAIN stack /\ stack'[j] = stack[j + d]
        BY <1>5, <3>2, Kinds
      <4> QED
        BY <3>1, <3>2, <4>1 DEF Found
    <3>3. Listed \subseteq Kids
      BY Entries DEF PoolIInv
    <3>4. Found(f)'
      BY <1>1, <1>9, <3>1, <3>2, <3>3 DEF Found
    <3> QED
      BY <2>1, <3>4 DEF Found
  <2>4. CASE f = Frame("build")
    BY <2>2, <2>4, BuildFrame
  <2> QED
    BY <1>3, <1>4, <2>1, <2>2, <2>3, <2>4 DEF Carries
<1>12. CountersTrue'
  <2>1. ASSUME NEW i \in DOMAIN stack', Counting(stack'[i])
        PROVE  i + d \in DOMAIN stack /\ stack'[i] = stack[i + d]
    BY <1>5, <2>1, Kinds
  <2>2. ASSUME NEW i \in DOMAIN stack', Counting(stack'[i]), drift # "all"
        PROVE  /\ \A j \in DOMAIN stack' : Counting(stack'[j]) => i = j
               /\ childnum + ToAll(stack'[i]) = Len(list) + ToList(stack'[i])
               /\ stack'[i].do = "writeall" => stack'[i].read = childnum
    <3>1. ASSUME NEW j \in DOMAIN stack', Counting(stack'[j]) PROVE i = j
      <4>1. i + d = j + d
        BY <2>1, <2>2, <3>1 DEF PoolIInv, CountersTrue
      <4> QED
        BY <1>3, <4>1
    <3> QED
      BY <2>1, <2>2, <3>1 DEF PoolIInv, CountersTrue
  <2>3. ASSUME NEW i \in DOMAIN stack', Counting(stack'[i]), drift = "none"
        PROVE  /\ freechildnum + ToFree(stack'[i]) = Cardinality(Free) + ToList(stack'[i])
               /\ stack'[i].do = "writefree" => stack'[i].read = freechildnum
    BY <2>1, <2>3 DEF PoolIInv, CountersTrue
  <2>4. /\ Len(list') = Cardinality(Listed')
        /\ stack' # <<>> /\ ~Storing' =>
             /\ drift' # "all" => childnum' = Len(list')
             /\ drift' = "none" => freechildnum' = Cardinality(Free')
    BY <1>1, <1>7 DEF PoolIInv, CountersTrue
  <2> QED
    BY <1>1, <2>2, <2>3, <2>4 DEF CountersTrue, ToAll, ToFree, ToList, Joining
<1>13. EndTrue'
  <2>1. Listed \subseteq Kids
    BY Entries DEF PoolIInv
  <2> QED
    BY <1>1, <1>7, <1>9, <2>1 DEF PoolIInv, EndTrue
<1> QED
  BY <1>1, <1>2, <1>8, <1>10, <1>11, <1>12, <1>13 DEF PoolIInv

\* The manager ends.
LEMMA ManagerEnds ==
  ASSUME PoolIInv, stack # <<>>, stack' = <<>>, gone' # "no", gone' \in {"register", "destroy"} => Ending,
         list' = list, pipe' = pipe, child' = child, drift' = drift, childnum' = childnum, late' = late,
         freechildnum' = freechildnum, usr1Pending' \in Int
  PROVE  PoolIInv'
<1>1. Listed' = Listed /\ ListedOnce'
  BY SameList DEF PoolIInv
<1>2. Stacked' /\ DOMAIN stack' = {}
  BY NoFrame
<1>3. PoolTyped' /\ LoopBelow'
  BY <1>2 DEF PoolIInv, PoolTyped, Stacked
<1>4. Awaited' /\ FoundTrue' /\ CountersTrue'
  BY <1>1, <1>2 DEF Awaited, FoundTrue, CountersTrue, PoolIInv
<1>5. EndTrue'
  <2>1. \A k : Alive(k)' = Alive(k)
    BY DEF Alive
  <2>2. ~Ending'
    BY <1>2 DEF Ending
  <2> QED
    BY <1>1, <2>1, <2>2 DEF PoolIInv, EndTrue
<1> QED
  BY <1>1, <1>3, <1>4, <1>5 DEF PoolIInv

\* The frame on the top becomes f.
TopBecomes(f) ==
    stack # <<>> /\ f \in Frames /\ Replace(f) /\ (InLoop(f) <=> InLoop(Top)) /\ FrameFits(f)

LEMMA TopChanges ==
  ASSUME PoolIInv, NEW f, TopBecomes(f)
  PROVE  /\ Stacked' /\ stack' # <<>> /\ DOMAIN stack' = DOMAIN stack /\ 1 \in DOMAIN stack
         /\ stack'[1] = f /\ Top = stack[1]
         /\ \A n \in DOMAIN stack : n # 1 => stack'[n] = stack[n]
         /\ InLoop(Top) => DOMAIN stack = {1}
<1>1. Stacked /\ stack # <<>>
  BY DEF PoolIInv, PoolTyped, Stacked, TopBecomes
<1> QED
  BY <1>1, Replaced, Alone DEF TopBecomes

LEMMA TopKinds ==
  ASSUME PoolIInv, NEW f, TopBecomes(f)
  PROVE  /\ (Joining(f) <=> Joining(Top)) /\ (Joining(f) => f.kid = Top.kid) => Coming' = Coming
         /\ Joining(f) /\ ~Joining(Top) => Coming' = Coming \cup {f.kid}
         /\ ~Joining(f) /\ Joining(Top) => Coming' = Coming \ {Top.kid}
         /\ f.do # "told" /\ Top.do # "told" => Told' = Told
         /\ InLoop(Top) => /\ Told = IF Top.do = "told" THEN {Top} ELSE {}
                           /\ Told' = IF f.do = "told" THEN {f} ELSE {}
         /\ Top.do \notin {"dying", "failing"} => (Ending' <=> Ending \/ f.do \in {"dying", "failing"})
         /\ (Counting(f) <=> Counting(Top)) => (Storing' <=> Storing)
<1>1. /\ DOMAIN stack' = DOMAIN stack /\ 1 \in DOMAIN stack /\ stack'[1] = f /\ Top = stack[1]
      /\ \A n \in DOMAIN stack : n # 1 => stack'[n] = stack[n]
      /\ InLoop(Top) => DOMAIN stack = {1}
  BY TopChanges
<1>2. ASSUME Joining(f) <=> Joining(Top), Joining(f) => f.kid = Top.kid PROVE Coming' = Coming
  <2>1. \A i \in DOMAIN stack : /\ Joining(stack'[i]) <=> Joining(stack[i])
                                /\ Joining(stack[i]) => stack'[i].kid = stack[i].kid
    BY <1>1, <1>2
  <2> QED
    BY <1>1, <2>1 DEF Coming
<1>3. ASSUME Joining(f), ~Joining(Top) PROVE Coming' = Coming \cup {f.kid}
  BY <1>1, <1>3 DEF Coming
<1>4. ASSUME ~Joining(f), Joining(Top) PROVE Coming' = Coming \ {Top.kid}
  <2>1. \A i \in DOMAIN stack : Joining(stack[i]) /\ i # 1 => stack[i].kid # Top.kid
    BY <1>1, <1>4 DEF PoolIInv, Awaited, Joins
  <2> QED
    BY <1>1, <1>4, <2>1 DEF Coming
<1>5. ASSUME f.do # "told", Top.do # "told" PROVE Told' = Told
  BY <1>1, <1>5 DEF Told
<1>6. ASSUME InLoop(Top)
      PROVE  /\ Told = IF Top.do = "told" THEN {Top} ELSE {}
             /\ Told' = IF f.do = "told" THEN {f} ELSE {}
  BY <1>1, <1>6 DEF Told
<1>7. ASSUME Top.do \notin {"dying", "failing"} PROVE Ending' <=> Ending \/ f.do \in {"dying", "failing"}
  BY <1>1, <1>7 DEF Ending
<1>8. ASSUME Counting(f) <=> Counting(Top) PROVE Storing' <=> Storing
  BY <1>1, <1>8 DEF Storing
<1> QED
  BY <1>2, <1>3, <1>4, <1>5, <1>6, <1>7, <1>8

\* A frame that registers keeps its child, and what the loop has found stays.
LEMMA TopStep ==
  ASSUME PoolIInv, NEW f, TopBecomes(f), f.set \subseteq Top.set,
         f.do \in {"listen", "blocked"} \/ Top.do \notin {"listen", "blocked"},
         \A k \in Kids : /\ child[k] # "none" => child'[k] # "none"
                         /\ child[k] \notin {"none", "forked"} => child'[k] \notin {"none", "forked"}
                         /\ child[k] \notin {"none", "forked"} /\ ~Alive(k) => ~Alive(k)',
         Joins(f) => /\ f.kid \in Kids \ Listed' /\ child'[f.kid] # "none"
                     /\ (Joins(Top) /\ f.kid = Top.kid) \/ child[f.kid] = "none",
         \A i \in DOMAIN stack : i # 1 =>
            /\ Joins(stack[i]) => stack[i].kid \notin Listed'
            /\ stack[i].do \in {"told", "lost"} => stack[i].kid \in Listed'
            /\ stack[i].do = "lost" => pipe'[stack[i].kid] = <<>>,
         \A k \in Kids : (\E i \in DOMAIN stack' : k \in stack'[i].set) /\ pipe[k] # <<>> => pipe'[k] # <<>>,
         f.do \in {"told", "lost"} => f.kid \in Listed',
         f.do = "lost" => f.kid \in Kids /\ ~Alive(f.kid)' /\ pipe'[f.kid] = <<>>
  PROVE  Awaited' /\ FoundTrue'
<1>1. /\ DOMAIN stack' = DOMAIN stack /\ 1 \in DOMAIN stack /\ stack'[1] = f /\ Top = stack[1]
      /\ \A n \in DOMAIN stack : n # 1 => stack'[n] = stack[n]
  BY TopChanges
<1>2. Listed \subseteq Kids
  BY Entries DEF PoolIInv
<1>3. ASSUME NEW i \in DOMAIN stack, i # 1, Joins(stack[i]), Joins(f) PROVE stack[i].kid # f.kid
  <2>1. stack[i].kid \in Kids \ Listed /\ child[stack[i].kid] # "none"
    BY <1>3 DEF PoolIInv, Awaited
  <2>2. CASE Joins(Top) /\ f.kid = Top.kid
    BY <1>1, <1>3, <2>2 DEF PoolIInv, Awaited
  <2>3. CASE child[f.kid] = "none"
    BY <2>1, <2>3
  <2> QED
    BY <1>3, <2>2, <2>3
<1>4. Awaited'
  <2>1. ASSUME NEW i \in DOMAIN stack', Joins(stack'[i])
        PROVE  stack'[i].kid \in Kids \ Listed' /\ child'[stack'[i].kid] # "none"
    <3>1. CASE i = 1
      BY <1>1, <2>1, <3>1
    <3>2. CASE i # 1
      BY <1>1, <2>1, <3>2 DEF PoolIInv, Awaited
    <3> QED
      BY <3>1, <3>2
  <2>2. ASSUME NEW i \in DOMAIN stack', NEW j \in DOMAIN stack',
               Joins(stack'[i]), Joins(stack'[j]), stack'[i].kid = stack'[j].kid
        PROVE  i = j
    BY <1>1, <1>3, <2>2 DEF PoolIInv, Awaited
  <2> QED
    BY <2>1, <2>2 DEF Awaited
<1>5. FoundTrue'
  <2> SUFFICES ASSUME NEW i \in DOMAIN stack' PROVE Found(stack[i])'
    BY DEF FoundTrue
  <2>1. PICK g : g = stack'[i]
    OBVIOUS
  <2>2. PICK h \in DOMAIN stack : h = i /\ g.set \subseteq stack[h].set /\ (h # 1 => g = stack[h]) /\ (h = 1 => g = f)
    BY <1>1, <2>1
  <2>3. Found(stack[h])
    BY DEF PoolIInv, FoundTrue
  <2>4. ASSUME NEW k \in g.set \cap Kids, NEW j \in DOMAIN stack', Joins(stack'[j])
        PROVE  stack'[j].kid # k
    <3>1. /\ child[k] # "none"
          /\ \A m \in DOMAIN stack : Joins(stack[m]) => stack[m].kid # k
      BY <2>2, <2>3, <2>4 DEF Found
    <3> QED
      BY <1>1, <2>4, <3>1
  <2>5. ASSUME NEW k \in g.set \cap Kids, g.do \notin {"listen", "blocked"}
        PROVE  pipe'[k] # <<>> \/ ~Alive(k)'
    <3>1. (pipe[k] # <<>> \/ ~Alive(k)) /\ child[k] \notin {"none", "forked"}
      BY <1>1, <2>2, <2>3, <2>5 DEF Found
    <3> QED
      BY <2>1, <2>5, <3>1
  <2>6. \A k \in g.set \cap Kids : child'[k] \notin {"none", "forked"}
    BY <2>2, <2>3 DEF Found
  <2>7. g.do \in {"told", "lost"} => g.kid \in Listed'
    BY <1>1, <2>2
  <2>8. g.do = "lost" => ~Alive(g.kid)' /\ pipe'[g.kid] = <<>>
    <3>1. CASE h = 1
      BY <2>2, <3>1
    <3>2. CASE h # 1
      <4>1. g.do = "lost" => g.kid \in Listed /\ ~Alive(g.kid)
        BY <2>2, <2>3, <3>2 DEF Found
      <4>2. \A k \in Listed : child[k] \notin {"none", "forked"}
        BY DEF PoolIInv, KidsTrue, Known, Listed, TopBecomes
      <4> QED
        BY <1>2, <2>2, <3>2, <4>1, <4>2
    <3> QED
      BY <3>1, <3>2
  <2>9. Found(g)'
    BY <2>4, <2>5, <2>6, <2>7, <2>8 DEF Found
  <2> QED
    BY <2>1, <2>9 DEF Found
<1> QED
  BY <1>4, <1>5

\* The counters when the frame on the top counts, before or after, and no other.
LEMMA CountersTop ==
  ASSUME PoolIInv, NEW f, TopBecomes(f), Len(list') = Cardinality(Listed'),
         drift' # "all" => /\ drift # "all" /\ (Counting(Top) \/ ~Storing)
                           /\ ~Counting(f) => childnum' = Len(list')
                           /\ Counting(f) => /\ childnum' + ToAll(f) = Len(list') + ToList(f)
                                             /\ f.do = "writeall" => f.read = childnum',
         drift' = "none" => /\ ~Counting(f) => freechildnum' = Cardinality(Free')
                            /\ Counting(f) => /\ freechildnum' + ToFree(f) = Cardinality(Free') + ToList(f)
                                              /\ f.do = "writefree" => f.read = freechildnum'
  PROVE  CountersTrue'
<1>1. /\ DOMAIN stack' = DOMAIN stack /\ 1 \in DOMAIN stack /\ stack'[1] = f /\ Top = stack[1]
      /\ \A n \in DOMAIN stack : n # 1 => stack'[n] = stack[n]
  BY TopChanges
<1>2. ASSUME drift' # "all", NEW i \in DOMAIN stack', Counting(stack'[i]) PROVE i = 1
  <2>1. CASE Counting(Top)
    BY <1>1, <1>2, <2>1 DEF PoolIInv, CountersTrue
  <2>2. CASE ~Storing
    BY <1>1, <1>2, <2>2 DEF Storing
  <2> QED
    BY <1>2, <2>1, <2>2
<1>3. drift' # "all" => (Storing' <=> Counting(f))
  BY <1>1, <1>2 DEF Storing
<1>4. /\ stack' # <<>> /\ ~Storing' =>
           /\ drift' # "all" => childnum' = Len(list')
           /\ drift' = "none" => freechildnum' = Cardinality(Free')
  BY <1>3
<1>5. \A i \in DOMAIN stack' : Counting(stack'[i]) =>
         /\ drift' # "all" =>
              /\ \A j \in DOMAIN stack' : Counting(stack'[j]) => i = j
              /\ childnum' + ToAll(stack'[i]) = Len(list') + ToList(stack'[i])
              /\ stack'[i].do = "writeall" => stack'[i].read = childnum'
         /\ drift' = "none" =>
              /\ freechildnum' + ToFree(stack'[i]) = Cardinality(Free') + ToList(stack'[i])
              /\ stack'[i].do = "writefree" => stack'[i].read = freechildnum'
  BY <1>1, <1>2
<1> QED
  BY <1>4, <1>5 DEF CountersTrue

\* The counters when the frame on the top does not count.
LEMMA CountersKept ==
  ASSUME PoolIInv, NEW f, TopBecomes(f), ~Counting(f), ~Counting(Top),
         Len(list') = Len(list), Listed' = Listed, childnum' = childnum, freechildnum' = freechildnum,
         drift' # "all" => drift # "all", drift' = "none" => drift = "none" /\ Free' = Free
  PROVE  CountersTrue'
<1>1. /\ DOMAIN stack' = DOMAIN stack /\ 1 \in DOMAIN stack /\ stack'[1] = f /\ Top = stack[1]
      /\ \A n \in DOMAIN stack : n # 1 => stack'[n] = stack[n]
  BY TopChanges
<1>2. Storing' <=> Storing
  BY TopKinds
<1>3. /\ Len(list') = Cardinality(Listed')
      /\ stack' # <<>> /\ ~Storing' =>
           /\ drift' # "all" => childnum' = Len(list')
           /\ drift' = "none" => freechildnum' = Cardinality(Free')
  BY <1>2 DEF PoolIInv, CountersTrue, TopBecomes
<1>4. \A i \in DOMAIN stack' : Counting(stack'[i]) => i # 1 /\ stack'[i] = stack[i]
  BY <1>1
<1>5. \A i \in DOMAIN stack' : Counting(stack'[i]) =>
         /\ drift' # "all" =>
              /\ \A j \in DOMAIN stack' : Counting(stack'[j]) => i = j
              /\ childnum' + ToAll(stack'[i]) = Len(list') + ToList(stack'[i])
              /\ stack'[i].do = "writeall" => stack'[i].read = childnum'
         /\ drift' = "none" =>
              /\ freechildnum' + ToFree(stack'[i]) = Cardinality(Free') + ToList(stack'[i])
              /\ stack'[i].do = "writefree" => stack'[i].read = freechildnum'
  BY <1>1, <1>4 DEF PoolIInv, CountersTrue
<1> QED
  BY <1>3, <1>5 DEF CountersTrue

-----------------------------------------------------------------------------
(***************************************************************************)
(* What becomes of the list: an entry in front, another status, one entry  *)
(* less, or every child dead.                                              *)
(***************************************************************************)
Entry == [kid : Kids, status : Statuses]

LEMMA Added ==
  ASSUME PoolTyped, ListedOnce, NEW k \in Kids \ Listed,
         list' = <<[kid |-> k, status |-> READY]>> \o list
  PROVE  /\ list' \in Seq(Entry) /\ Len(list') = Len(list) + 1 /\ ListedOnce'
         /\ Listed' = Listed \cup {k} /\ Free' = Free \cup {k}
         /\ \A i \in DOMAIN list' : \/ list'[i] = [kid |-> k, status |-> READY]
                                    \/ \E j \in DOMAIN list : list'[i] = list[j]
<1> DEFINE e == [kid |-> k, status |-> READY]
<1>1. e \in Entry /\ e.kid = k /\ e.status = READY
  BY DEF Entry, Statuses
<1> HIDE DEF e
<1>2. list \in Seq(Entry) /\ Len(list) \in Nat /\ DOMAIN list = 1 .. Len(list)
  BY DEF PoolTyped, Entry
<1>3. /\ list' \in Seq(Entry) /\ Len(list') = Len(list) + 1 /\ list'[1] = e
      /\ \A n \in 1 .. Len(list) : list'[n + 1] = list[n]
  BY <1>1, <1>2, InFront DEF e
<1>4. DOMAIN list' = 1 .. Len(list) + 1
  BY <1>2, <1>3
<1>5. ASSUME NEW i \in DOMAIN list', i # 1
      PROVE  i - 1 \in DOMAIN list /\ list'[i] = list[i - 1]
  <2>1. i - 1 \in 1 .. Len(list) /\ (i - 1) + 1 = i
    BY <1>2, <1>4, <1>5
  <2> QED
    BY <1>2, <1>3, <2>1
<1>6. \A j \in DOMAIN list : j + 1 \in DOMAIN list' /\ list'[j + 1] = list[j] /\ list[j].kid # k
  BY <1>2, <1>3, <1>4 DEF Listed
<1>7. 1 \in DOMAIN list'
  BY <1>2, <1>4
<1>8. Listed' = Listed \cup {k}
  BY <1>1, <1>3, <1>5, <1>6, <1>7 DEF Listed
<1>9. Free' = Free \cup {k}
  <2>1. ASSUME NEW x \in Free' PROVE x \in Free \cup {k}
    <3>1. PICK i \in DOMAIN list' : list'[i].status = READY /\ list'[i].kid = x
      BY <2>1 DEF Free
    <3>2. CASE i = 1
      BY <1>1, <1>3, <3>1, <3>2
    <3>3. CASE i # 1
      BY <1>5, <3>1, <3>3 DEF Free
    <3> QED
      BY <3>2, <3>3
  <2>2. ASSUME NEW x \in Free PROVE x \in Free'
    <3>1. PICK j \in DOMAIN list : list[j].status = READY /\ list[j].kid = x
      BY <2>2 DEF Free
    <3>2. j + 1 \in DOMAIN list' /\ list'[j + 1] = list[j]
      BY <1>6, <3>1
    <3> QED
      BY <3>1, <3>2 DEF Free
  <2>3. k \in Free'
    BY <1>1, <1>3, <1>7 DEF Free
  <2> QED
    BY <2>1, <2>2, <2>3
<1>10. ListedOnce'
  <2> SUFFICES ASSUME NEW i \in DOMAIN list', NEW j \in DOMAIN list', list'[i].kid = list'[j].kid
               PROVE  i = j
    BY DEF ListedOnce
  <2>1. CASE i = 1 /\ j # 1
    BY <1>1, <1>3, <1>5, <1>6, <2>1
  <2>2. CASE i # 1 /\ j = 1
    BY <1>1, <1>3, <1>5, <1>6, <2>2
  <2>3. CASE i # 1 /\ j # 1
    <3>1. i - 1 = j - 1
      BY <1>5, <2>3 DEF ListedOnce
    <3> QED
      BY <1>2, <1>4, <3>1
  <2> QED
    BY <2>1, <2>2, <2>3
<1> QED
  BY <1>3, <1>5, <1>8, <1>9, <1>10 DEF e

LEMMA Updated ==
  ASSUME PoolTyped, ListedOnce, NEW k \in Listed, NEW b \in {READY, WORK},
         list' = [i \in DOMAIN list |-> IF list[i].kid = k THEN [list[i] EXCEPT !.status = b] ELSE list[i]]
  PROVE  /\ list' \in Seq(Entry) /\ Len(list') = Len(list) /\ ListedOnce' /\ Listed' = Listed
         /\ Free' = IF b = READY THEN Free \cup {k} ELSE Free \ {k}
         /\ DOMAIN list' = DOMAIN list
         /\ \A i \in DOMAIN list : /\ list'[i].kid = list[i].kid
                                   /\ list'[i].status = IF list[i].kid = k THEN b ELSE list[i].status
<1>1. list \in Seq(Entry) /\ Len(list) \in Nat /\ DOMAIN list = 1 .. Len(list)
  BY DEF PoolTyped, Entry
<1>2. ASSUME NEW i \in DOMAIN list
      PROVE  /\ list'[i] \in Entry /\ list'[i].kid = list[i].kid
             /\ list'[i].status = IF list[i].kid = k THEN b ELSE list[i].status
  <2>1. list[i] \in Entry
    BY <1>1
  <2> QED
    BY <2>1 DEF Entry, Statuses
<1>3. DOMAIN list' = 1 .. Len(list)
  BY <1>1
<1>4. list' \in Seq(Entry) /\ Len(list') = Len(list)
  <2>1. list' = [i \in 1 .. Len(list) |-> list'[i]]
    BY <1>1, <1>3
  <2>2. list' \in [1 .. Len(list) -> Entry]
    BY <1>1, <1>2, <2>1
  <2> QED
    BY <1>1, <2>2
<1>5. DOMAIN list' = DOMAIN list
  BY <1>1, <1>3
<1>6. Listed' = Listed /\ ListedOnce'
  BY <1>2, <1>5 DEF Listed, ListedOnce
<1>7. Free' = IF b = READY THEN Free \cup {k} ELSE Free \ {k}
  <2>1. PICK n \in DOMAIN list : list[n].kid = k
    BY DEF Listed
  <2>2. CASE b = READY
    <3>1. Free' \subseteq Free \cup {k}
      BY <1>2, <1>5 DEF Free
    <3>2. Free \cup {k} \subseteq Free'
      BY <1>2, <1>5, <2>1, <2>2 DEF Free
    <3> QED
      BY <2>2, <3>1, <3>2
  <2>3. CASE b # READY
    <3>1. Free' \subseteq Free \ {k}
      BY <1>2, <1>5, <2>3 DEF Free
    <3>2. Free \ {k} \subseteq Free'
      BY <1>2, <1>5 DEF Free
    <3> QED
      BY <2>3, <3>1, <3>2
  <2> QED
    BY <2>2, <2>3
<1> QED
  BY <1>2, <1>4, <1>5, <1>6, <1>7

LEMMA Removed ==
  ASSUME PoolTyped, ListedOnce, NEW i \in DOMAIN list, list' = RemoveAt(list, i)
  PROVE  /\ list' \in Seq(Entry) /\ Len(list') = Len(list) - 1 /\ ListedOnce'
         /\ Listed' = Listed \ {list[i].kid} /\ Free' = Free \ {list[i].kid}
         /\ \A n \in DOMAIN list' : \E j \in DOMAIN list : list'[n] = list[j]
<1>1. list \in Seq(Entry) /\ Len(list) \in Nat /\ DOMAIN list = 1 .. Len(list)
  BY DEF PoolTyped, Entry
<1>2. /\ list' \in Seq(Entry) /\ Len(list') = Len(list) - 1
      /\ \A n \in 1 .. Len(list) - 1 : list'[n] = IF n < i THEN list[n] ELSE list[n + 1]
  BY <1>1, Without
<1>3. DOMAIN list' = 1 .. Len(list) - 1
  BY <1>1, <1>2
<1> DEFINE old(n) == IF n < i THEN n ELSE n + 1
<1>4. \A n \in DOMAIN list' : old(n) \in DOMAIN list /\ old(n) # i /\ list'[n] = list[old(n)]
  BY <1>1, <1>2, <1>3
<1>5. \A j \in DOMAIN list : j # i => \E n \in DOMAIN list' : old(n) = j
  <2> SUFFICES ASSUME NEW j \in DOMAIN list, j # i PROVE \E n \in DOMAIN list' : old(n) = j
    OBVIOUS
  <2>1. CASE j < i
    <3>1. j \in DOMAIN list' /\ old(j) = j
      BY <1>1, <1>3, <2>1
    <3> QED
      BY <3>1
  <2>2. CASE j > i
    <3>1. j - 1 \in DOMAIN list' /\ old(j - 1) = j
      BY <1>1, <1>3, <2>2
    <3> QED
      BY <3>1
  <2> QED
    BY <1>1, <2>1, <2>2
<1>6. \A m, n \in DOMAIN list' : old(m) = old(n) => m = n
  BY <1>1, <1>3
<1> HIDE DEF old
<1>7. \A j \in DOMAIN list : j # i => list[j].kid # list[i].kid
  BY DEF ListedOnce
<1>8. ListedOnce'
  BY <1>4, <1>6 DEF ListedOnce
<1>9. Listed' = Listed \ {list[i].kid}
  BY <1>4, <1>5, <1>7 DEF Listed
<1>10. Free' = Free \ {list[i].kid}
  BY <1>4, <1>5, <1>7 DEF Free
<1> QED
  BY <1>2, <1>4, <1>8, <1>9, <1>10

LEMMA AllDead ==
  ASSUME PoolTyped, ListedOnce,
         list' = [i \in DOMAIN list |-> [list[i] EXCEPT !.status = DEAD]]
  PROVE  /\ list' \in Seq(Entry) /\ Len(list') = Len(list) /\ ListedOnce' /\ Listed' = Listed
         /\ DOMAIN list' = DOMAIN list
         /\ \A i \in DOMAIN list : list'[i].kid = list[i].kid /\ list'[i].status = DEAD
<1>1. list \in Seq(Entry) /\ Len(list) \in Nat /\ DOMAIN list = 1 .. Len(list)
  BY DEF PoolTyped, Entry
<1>2. ASSUME NEW i \in DOMAIN list
      PROVE  /\ [list[i] EXCEPT !.status = DEAD] \in Entry
             /\ [list[i] EXCEPT !.status = DEAD].kid = list[i].kid
             /\ [list[i] EXCEPT !.status = DEAD].status = DEAD
  <2>1. list[i] \in Entry
    BY <1>1
  <2> QED
    BY <2>1 DEF Entry, Statuses
<1>3. DOMAIN list' = 1 .. Len(list)
  BY <1>1
<1>4. \A i \in DOMAIN list : list'[i] \in Entry /\ list'[i].kid = list[i].kid /\ list'[i].status = DEAD
  BY <1>2
<1>5. list' \in Seq(Entry) /\ Len(list') = Len(list)
  <2>1. list' = [i \in 1 .. Len(list) |-> list'[i]]
    BY <1>1, <1>3
  <2>2. list' \in [1 .. Len(list) -> Entry]
    BY <1>1, <1>4, <2>1
  <2> QED
    BY <1>1, <2>2
<1>6. Listed' = Listed /\ ListedOnce'
  BY <1>1, <1>3, <1>4 DEF Listed, ListedOnce
<1> QED
  BY <1>1, <1>3, <1>4, <1>5, <1>6

-----------------------------------------------------------------------------
(***************************************************************************)
(* The steps that leave the list alone.                                    *)
(***************************************************************************)
LEMMA InitFrameFits ==
  ASSUME NEW n \in Nat, NEW sig \in {"none", "chld", "usr1", "alrm"}
  PROVE  /\ InitFrame(n, sig) \in Frames /\ InitFrame(n, sig).do = "fork" /\ InitFrame(n, sig).set = {}
         /\ InitFrame(n, sig).todo = n /\ InitFrame(n, sig).sig = sig
         /\ Plain(InitFrame(n, sig)) /\ FrameFits(InitFrame(n, sig)) /\ ~InLoop(InitFrame(n, sig))
<1>1. /\ InitFrame(n, sig) \in Frames /\ InitFrame(n, sig).do = "fork" /\ InitFrame(n, sig).set = {}
      /\ InitFrame(n, sig).todo = n /\ InitFrame(n, sig).sig = sig
  <2>1. PICK f : f = InitFrame(n, sig)
    OBVIOUS
  <2>2. f = [do |-> "fork", sig |-> sig, todo |-> n, kid |-> 0, set |-> {},
             byte |-> "none", all |-> 0, free |-> 0, read |-> 0]
    BY <2>1 DEF InitFrame, Frame
  <2>3. f \in Frames
    BY ONLY <2>2, n \in Nat, sig \in {"none", "chld", "usr1", "alrm"} DEF Frames, HandlerDoes, Signs
  <2> QED
    BY <2>1, <2>2, <2>3
<1> QED
  BY <1>1 DEF Plain, FrameFits, Joining, InLoop, LoopDoes, CountDoes

LEMMA QueueNumber ==
  ASSUME usr1Pending \in Int, NEW n \in Int, Queue(n)
  PROVE  usr1Pending' \in Int /\ (usr1Pending # 0 => usr1Pending' = usr1Pending)
<1>1. Most \in Nat
  BY ProcPoolAssumption, FS_CardinalityType DEF Most
<1> QED
  BY <1>1 DEF Queue

LEMMA ReapKeeps ==
  ASSUME PoolIInv, Reap
  PROVE  PoolIInv'
<1>0. /\ Stacked /\ stack # <<>> /\ Top.do = "reap" /\ PoolTyped /\ usr1Pending' \in Int
      /\ UNCHANGED <<gone, pipe, list, childnum, freechildnum, drift, late>>
  BY DEF PoolIInv, PoolTyped, Stacked, Reap, Runs, poolVars, historyVars
<1>1. CASE stack' = stack
  <2>1. MayEnd
    <3>1. child' = child => MayEnd
      BY <1>0, NoneEnds DEF PoolTyped
    <3>2. ASSUME NEW k \in Kids, child[k] = "zombie", child' = [child EXCEPT ![k] = "reaped"] PROVE MayEnd
      BY <1>0, <3>2 DEF PoolTyped, MayEnd, Lives
    <3> QED
      BY <3>1, <3>2 DEF Reap
  <2>2. Stacked' /\ stack' # <<>> /\ Carries(0, 0)
    BY <1>0, <1>1, Stays
  <2> QED
    BY <1>0, <2>1, <2>2, HandlersOnly
<1>2. CASE stack' = Tail(stack) /\ child' = child
  <2>1. MayEnd
    BY <1>0, <1>2, NoneEnds DEF PoolTyped
  <2>2. Stacked' /\ stack' # <<>> /\ Carries(0, 1)
    BY <1>0, <1>2, Popped 
  <2> QED
    BY <1>0, <2>1, <2>2, HandlersOnly
<1> QED
  BY <1>1, <1>2 DEF Reap

LEMMA AverageKeeps ==
  ASSUME PoolIInv, Average
  PROVE  PoolIInv' /\ (usr1Pending # 0 => usr1Pending' = usr1Pending)
<1>0. /\ Stacked /\ stack # <<>> /\ Top.do = "average" /\ PoolTyped
      /\ UNCHANGED <<pipe, list, childnum, freechildnum, drift, late, child>>
  BY DEF PoolIInv, PoolTyped, Stacked, Average, Runs, poolVars, historyVars, kidVars
<1>1. MayEnd
  BY <1>0, NoneEnds DEF PoolTyped
<1>2. usr1Pending' \in Int /\ (usr1Pending # 0 => usr1Pending' = usr1Pending)
  <2>1. usr1Pending' = usr1Pending \/ \E n \in Int : Queue(n)
    <3> DEFINE free4 == (freechildnum * 10) \div 4
               free6 == (freechildnum * 10) \div 6
               a == IF free4 - freechildnum + childnum > MAXCHILDNUM
                    THEN MAXCHILDNUM - childnum ELSE free4 + 1 - freechildnum
               b == IF free6 - freechildnum + childnum < MINCHILDNUM
                    THEN MINCHILDNUM - childnum ELSE free4 + 1 - freechildnum
    <3>1. free4 \in Int /\ free6 \in Int /\ childnum \in Int /\ freechildnum \in Int
      BY <1>0 DEF PoolTyped
    <3>2. MINCHILDNUM \in Int /\ MAXCHILDNUM \in Int
      BY ProcPoolAssumption
    <3>3. usr1Pending' = usr1Pending \/ Queue(a) \/ Queue(b)
      BY DEF Average
    <3> HIDE DEF free4, free6
    <3>4. a \in Int /\ b \in Int
      BY <3>1, <3>2
    <3> HIDE DEF a, b
    <3> QED
      BY <3>3, <3>4
  <2> QED
    BY <1>0, <2>1, QueueNumber DEF PoolTyped
<1>3. CASE stack' = Tail(stack) /\ gone' = gone
  <2>1. Stacked' /\ stack' # <<>> /\ Carries(0, 1)
    BY <1>0, <1>3, Popped 
  <2> QED
    BY <1>0, <1>1, <1>2, <1>3, <2>1, HandlersOnly
<1>4. CASE Exit("freed")
  <2>1. stack' = <<>> /\ gone' = "freed"
    BY <1>4 DEF Exit
  <2> QED
    BY <1>0, <1>1, <1>2, <2>1, ManagerEnds
<1>5. (stack' = Tail(stack) /\ gone' = gone) \/ Exit("freed")
  BY DEF Average
<1> QED
  BY <1>2, <1>3, <1>4, <1>5

LEMMA SignalsKeep ==
  ASSUME PoolIInv, Sigchld \/ Sigusr1 \/ Sigalrm
  PROVE  PoolIInv'
<1>0. /\ Stacked /\ stack # <<>> /\ PoolTyped
      /\ UNCHANGED <<gone, pipe, list, childnum, freechildnum, drift, late>>
  BY DEF PoolIInv, PoolTyped, Stacked, Sigchld, Sigusr1, Sigalrm, poolVars, kidVars, historyVars
<1>1. CASE Sigchld
  <2>1. PICK f : f = [Frame("reap") EXCEPT !.sig = "chld"]
    OBVIOUS
  <2>2. f \in Frames /\ f.do = "reap" /\ f.set = {}
    BY <2>1 DEF Frame, Frames, HandlerDoes, Signs
  <2>3. stack' = <<f>> \o Interrupted /\ child' = child /\ usr1Pending' = usr1Pending
    BY <1>1, <2>1 DEF Sigchld, kidVars
  <2>4. Stacked' /\ stack' # <<>> /\ stack'[1] = f /\ Carries(1, -1)
    BY <1>0, <2>2, <2>3, Pushed DEF InLoop, LoopDoes, CountDoes, FrameFits, Joining
  <2>5. MayEnd
    BY <1>0, <2>3, NoneEnds DEF PoolTyped
  <2>6. usr1Pending' \in Int
    BY <1>0, <2>3 DEF PoolTyped
  <2> QED
    BY <1>0, <2>2, <2>4, <2>5, <2>6, HandlersOnly DEF Plain
<1>2. CASE Sigalrm
  <2>1. PICK f : f = [Frame("average") EXCEPT !.sig = "alrm"]
    OBVIOUS
  <2>2. f \in Frames /\ f.do = "average" /\ f.set = {}
    BY <2>1 DEF Frame, Frames, HandlerDoes, Signs
  <2>3. stack' = <<f>> \o Interrupted /\ child' = child
    BY <1>2, <2>1 DEF Sigalrm, kidVars
  <2>4. Stacked' /\ stack' # <<>> /\ stack'[1] = f /\ Carries(1, -1)
    BY <1>0, <2>2, <2>3, Pushed DEF InLoop, LoopDoes, CountDoes, FrameFits, Joining
  <2>5. MayEnd
    BY <1>0, <2>3, NoneEnds DEF PoolTyped
  <2>6. usr1Pending' \in Int
    <3>1. (IF childnum < MINCHILDNUM THEN MINCHILDNUM - childnum
           ELSE IF childnum > MAXCHILDNUM THEN MAXCHILDNUM - childnum ELSE 0) \in Int
      BY <1>0, ProcPoolAssumption DEF PoolTyped
    <3> QED
      BY <1>0, <1>2, <3>1, QueueNumber DEF PoolTyped, Sigalrm
  <2> QED
    BY <1>0, <2>2, <2>3, <2>4, <2>5, <2>6, HandlersOnly DEF Plain
<1>3. CASE Sigusr1
  <2>1. usr1Pending' = 0
    BY <1>3 DEF Sigusr1
  <2>2. CASE usr1Pending > 0 /\ stack' = <<InitFrame(usr1Pending, "usr1")>> \o Interrupted /\ child' = child
    <3>1. PICK f : f = InitFrame(usr1Pending, "usr1")
      OBVIOUS
    <3>2. usr1Pending \in Nat
      BY <1>0, <2>2 DEF PoolTyped
    <3>3. f \in Frames /\ f.set = {} /\ Plain(f) /\ FrameFits(f) /\ ~InLoop(f)
      BY <3>1, <3>2, InitFrameFits
    <3>4. Stacked' /\ stack' # <<>> /\ stack'[1] = f /\ Carries(1, -1)
      BY <1>0, <2>2, <3>1, <3>3, Pushed
    <3>5. MayEnd
      BY <1>0, <2>2, NoneEnds DEF PoolTyped
    <3> QED
      BY <1>0, <2>1, <3>3, <3>4, <3>5, HandlersOnly
  <2>3. CASE stack' = Interrupted /\ Kill(FreeOnes(-usr1Pending))
    <3>1. Stacked' /\ stack' # <<>> /\ Carries(0, 0)
      BY <1>0, <2>3, OnlyWokenUp
    <3>2. MayEnd
      BY <1>0, <2>3, Killed DEF PoolTyped
    <3> QED
      BY <1>0, <2>1, <3>1, <3>2, HandlersOnly
  <2> QED
    BY <1>3, <2>2, <2>3 DEF Sigusr1
<1> QED
  BY <1>1, <1>2, <1>3

\* What happens outside of the manager: its stack stays.
LEMMA OutsideKeeps ==
  ASSUME PoolIInv,
         \/ \E k \in Kids : Dies(k)
         \/ procpool_stat \/ procpool_destroy \/ AskRestart \/ procpool_sizectrl
  PROVE  PoolIInv' /\ (usr1Pending # 0 => usr1Pending' = usr1Pending)
<1>0. /\ Stacked /\ stack # <<>> /\ PoolTyped
      /\ UNCHANGED <<stack, gone, pipe, list, childnum, freechildnum, drift, late>>
  BY DEF PoolIInv, PoolTyped, Stacked, Dies, procpool_stat, procpool_destroy, AskRestart, Ask,
         procpool_sizectrl, poolVars, kidVars, historyVars
<1>1. MayEnd
  <2>1. child' = child => MayEnd
    BY <1>0, NoneEnds DEF PoolTyped
  <2>2. ASSUME NEW k \in Kids, Dies(k) PROVE MayEnd
    BY <1>0, <2>2, Killed DEF PoolTyped, Dies
  <2> QED
    BY <2>1, <2>2 DEF procpool_stat, procpool_destroy, AskRestart, Ask, procpool_sizectrl, kidVars
<1>2. usr1Pending' \in Int /\ (usr1Pending # 0 => usr1Pending' = usr1Pending)
  <2>1. CASE procpool_sizectrl
    <3>1. PICK n \in ((-MaxSize)..MaxSize) \ {0} : Queue(n)
      BY <2>1 DEF procpool_sizectrl
    <3>2. n \in Int
      BY ProcPoolAssumption
    <3> QED
      BY <1>0, <3>1, <3>2, QueueNumber DEF PoolTyped
  <2>2. CASE ~procpool_sizectrl
    BY <1>0, <2>2 DEF PoolTyped, Dies, procpool_stat, procpool_destroy, AskRestart, Ask, signalVars
  <2> QED
    BY <2>1, <2>2
<1>3. Stacked' /\ stack' # <<>> /\ Carries(0, 0)
  BY <1>0, Stays
<1> QED
  BY <1>0, <1>1, <1>2, <1>3, HandlersOnly

\* A child writes: what it says is news to the manager.
LEMMA ChildStepKeeps ==
  ASSUME PoolIInv, NEW k \in Kids, ChildStep(k)
  PROVE  PoolIInv' /\ usr1Pending' = usr1Pending
<1>1. PICK from, to, byte :
        /\ Says(k, from, to, byte)
        /\ \/ from = "forked" /\ to = "idle" /\ byte = READY
           \/ from = "idle" /\ to = "busy" /\ byte = WORK
           \/ from = "busy" /\ to = "idle" /\ byte = READY
  BY DEF ChildStep, Works
<1>0. /\ Stacked /\ stack # <<>> /\ PoolTyped /\ child[k] = from /\ pipe[k] = <<>>
      /\ UNCHANGED <<stack, gone, list, childnum, freechildnum, usr1Pending, drift, late>>
  BY <1>1 DEF PoolIInv, PoolTyped, Stacked, Says, signalVars, poolVars, historyVars
<1>2. /\ pipe' \in [Kids -> Bytes] /\ pipe'[k] = <<byte>> /\ \A j \in Kids : j # k => pipe'[j] = pipe[j]
      /\ child' \in [Kids -> Lives] /\ child'[k] = to /\ \A j \in Kids : j # k => child'[j] = child[j]
  <2>1. <<byte>> \in Bytes /\ to \in Lives
    BY <1>1 DEF Bytes, Lives
  <2> QED
    BY <1>0, <1>1, <2>1 DEF Says, PoolTyped
<1>3. Listed' = Listed /\ ListedOnce' /\ Listed \subseteq Kids
  BY <1>0, SameList, Entries DEF PoolIInv
<1>4. Coming' = Coming /\ Told' = Told
  BY <1>0 DEF Coming, Told
<1>5. PoolTyped' /\ LoopBelow'
  BY <1>0, <1>2 DEF PoolIInv, PoolTyped, LoopBelow
<1>6. KidsTrue'
  <2>1. ASSUME NEW j \in Kids \ Listed PROVE IF j \in Coming THEN Joined(j)' ELSE Unlisted(j)'
    <3>0. IF j \in Coming THEN Joined(j) ELSE Unlisted(j)
      BY <1>0, <2>1 DEF PoolIInv, KidsTrue
    <3>1. CASE j # k
      BY <1>2, <3>0, <3>1 DEF Joined, Unlisted
    <3>2. CASE j = k /\ j \in Coming
      <4>1. from = "idle"
        BY <1>0, <1>1, <3>0, <3>2, Letters DEF Joined
      <4> QED
        BY <1>1, <1>2, <3>2, <4>1, Letters DEF Joined
    <3>3. CASE j = k /\ j \notin Coming
      <4>1. from = "forked"
        BY <1>0, <1>1, <3>0, <3>3, Letters DEF Unlisted
      <4> QED
        BY <1>1, <1>2, <3>3, <4>1, Letters DEF Unlisted
    <3> QED
      BY <3>1, <3>2, <3>3
  <2>2. ASSUME NEW i \in DOMAIN list PROVE Known(list[i].kid, list[i].status)'
    <3>1. PICK j \in Kids, s \in Statuses : j = list[i].kid /\ s = list[i].status
      BY <1>0, Entries
    <3>2. Known(j, s)
      BY <1>0, <3>1 DEF PoolIInv, KidsTrue
    <3>3. ASSUME NEW b, LastWord(j, b) PROVE LastWord(j, b)'
      BY <1>0, <1>1, <1>2, <3>2, <3>3, Letters DEF LastWord, Known
    <3>4. child'[j] \notin {"none", "forked"} /\ (child'[j] = "idle" => pipe'[j] # <<WORK>>)
          /\ (child'[j] = "busy" => pipe'[j] # <<READY>>)
      BY <1>0, <1>1, <1>2, <3>2, Letters DEF Known
    <3>5. child'[j] = "busy" /\ pipe'[j] = <<>> => child[j] = "busy" /\ pipe[j] = <<>>
      BY <1>1, <1>2, Letters
    <3>6. Known(j, s)'
      BY <1>0, <1>4, <3>2, <3>3, <3>4, <3>5 DEF Known
    <3> QED
      BY <1>0, <3>1, <3>6
  <2> QED
    BY <1>0, <1>3, <1>4, <2>1, <2>2 DEF KidsTrue
<1>7. Awaited'
  <2>1. \A j \in Kids : child[j] # "none" => child'[j] # "none"
    BY <1>1, <1>2
  <2> QED
    BY <1>0, <1>3, <2>1 DEF PoolIInv, Awaited
<1>8. FoundTrue'
  <2>1. \A j \in Kids : child[j] \notin {"none", "forked"} => child'[j] \notin {"none", "forked"}
    BY <1>1, <1>2
  <2>2. \A j \in Kids : pipe[j] # <<>> \/ ~Alive(j) => pipe'[j] # <<>> \/ ~Alive(j)'
    BY <1>2 DEF Alive
  <2>3. \A j \in Kids : pipe[j] = <<>> /\ ~Alive(j) => pipe'[j] = <<>> /\ ~Alive(j)'
    BY <1>0, <1>1, <1>2 DEF Alive
  <2> SUFFICES ASSUME NEW i \in DOMAIN stack' PROVE Found(stack[i])'
    BY DEF FoundTrue
  <2>4. PICK f : f = stack[i] /\ f = stack'[i]
    BY <1>0
  <2>5. Found(f)
    BY <1>0, <2>4 DEF PoolIInv, FoundTrue
  <2>6. Found(f)'
    BY <1>0, <1>3, <2>1, <2>2, <2>3, <2>5 DEF Found
  <2> QED
    BY <2>4, <2>6 DEF Found
<1>9. CountersTrue'
  BY <1>0, SameList DEF PoolIInv, CountersTrue, Storing
<1>10. EndTrue'
  <2>1. ~Alive(k) => FALSE
    BY <1>0, <1>1 DEF Alive
  <2>2. \A j \in Kids : ~Alive(j) => ~Alive(j)'
    BY <1>2, <2>1 DEF Alive
  <2>3. Ending' <=> Ending
    BY <1>0 DEF Ending
  <2> QED
    BY <1>0, <1>3, <2>2, <2>3 DEF PoolIInv, EndTrue
<1> QED
  BY <1>0, <1>3, <1>5, <1>6, <1>7, <1>8, <1>9, <1>10 DEF PoolIInv

\* The manager ends by itself, or is killed.
LEMMA LeaveKeeps ==
  ASSUME PoolIInv, Leave \/ CreateFails
  PROVE  PoolIInv' /\ usr1Pending' = usr1Pending
<1>0. /\ PoolTyped /\ stack # <<>> /\ stack' = <<>> /\ gone' \in {"destroy", "register", "killed"}
      /\ UNCHANGED <<pipe, child, list, childnum, freechildnum, drift, late, usr1Pending>>
  BY DEF PoolIInv, Leave, CreateFails, Exit, kidVars, poolVars, signalVars, historyVars
<1>1. gone' \in {"register", "destroy"} => Ending
  <2>1. ASSUME Leave PROVE Ending
    <3>1. Top.do \in {"dying", "failing"}
      BY <2>1 DEF Leave
    <3>2. Top = stack[1] /\ 1 \in DOMAIN stack
      BY <1>0, TopFrame DEF PoolIInv, PoolTyped, Stacked
    <3> QED
      BY <3>1, <3>2 DEF Ending
  <2>2. CreateFails => gone' = "killed"
    BY DEF CreateFails, Exit
  <2> QED
    BY <2>1, <2>2
<1>2. usr1Pending' \in Int
  BY <1>0 DEF PoolTyped
<1> QED
  BY <1>0, <1>1, <1>2, ManagerEnds

-----------------------------------------------------------------------------
(***************************************************************************)
(* The steps of the loop that leave the list alone.                        *)
(***************************************************************************)
LEMMA LoopGoesOn ==
  ASSUME PoolIInv, NEW f, TopBecomes(f), InLoop(Top), Plain(Top), Plain(f),
         list' = list, pipe' = pipe, child' = child, drift' = drift, childnum' = childnum, late' = late,
         freechildnum' = freechildnum, usr1Pending' = usr1Pending, gone' = gone,
         \A k \in f.set \cap Kids : /\ child[k] \notin {"none", "forked"}
                                    /\ f.do \notin {"listen", "blocked"} => pipe[k] # <<>> \/ ~Alive(k)
  PROVE  PoolIInv'
<1>1. /\ Stacked' /\ stack' # <<>> /\ DOMAIN stack' = {1} /\ stack'[1] = f /\ DOMAIN stack = {1}
  BY TopChanges
<1>2. Listed' = Listed /\ Free' = Free /\ ListedOnce'
  BY SameList DEF PoolIInv
<1>3. PoolTyped' /\ LoopBelow'
  BY <1>1 DEF PoolIInv, PoolTyped, Stacked
<1>4. Coming' = Coming /\ Told' = Told /\ (Ending' <=> Ending)
  BY TopKinds, Kinds
<1>5. KidsTrue'
  <2>1. MayEnd
    BY NoneEnds DEF PoolIInv, PoolTyped
  <2> QED
    BY <1>4, <2>1, KidsKept DEF PoolIInv, TopBecomes
<1>6. Awaited'
  BY <1>1, Kinds DEF Awaited
<1>7. FoundTrue'
  <2>1. Found(f)'
    BY <1>1, Kinds DEF Found, Alive
  <2> QED
    BY <1>1, <2>1 DEF FoundTrue, Found
<1>8. CountersTrue'
  BY <1>2, CountersKept, Kinds
<1>9. EndTrue'
  <2>1. \A k : Alive(k)' = Alive(k)
    BY DEF Alive
  <2> QED
    BY <1>1, <1>2, <1>4, <2>1 DEF PoolIInv, EndTrue, TopBecomes
<1> QED
  BY <1>2, <1>3, <1>5, <1>6, <1>7, <1>8, <1>9 DEF PoolIInv

LEMMA ListeningFrame ==
  ASSUME PoolIInv
  PROVE  /\ Listening \in Frames /\ Listening.do = "listen" /\ Listening.set = Listed
         /\ FrameFits(Listening) /\ InLoop(Listening) /\ Plain(Listening)
<1>1. Listed \subseteq Kids \cup {Manager}
  BY Entries DEF PoolIInv
<1>2. PICK f : f = Listening
  OBVIOUS
<1>3. PICK S : S = Listed /\ S \in SUBSET (Kids \cup {Manager})
  BY <1>1
<1>4. f = [do |-> "listen", sig |-> "none", todo |-> 0, kid |-> 0, set |-> S,
           byte |-> "none", all |-> 0, free |-> 0, read |-> 0]
  BY <1>2, <1>3 DEF Listening, Frame
<1>5. f \in Frames
  BY ONLY <1>3, <1>4 DEF Frames, LoopDoes, Signs
<1> QED
  BY <1>2, <1>3, <1>4, <1>5 DEF FrameFits, InLoop, Plain, LoopDoes, Joining, CountDoes

LEMMA SetFrame ==
  ASSUME NEW S \in SUBSET (Kids \cup {Manager}), NEW do \in {"parent", "walk"},
         NEW f, f = [Frame(do) EXCEPT !.set = S]
  PROVE  f \in Frames /\ f.do = do /\ f.set = S /\ FrameFits(f) /\ InLoop(f) /\ Plain(f)
<1>1. f = [do |-> do, sig |-> "none", todo |-> 0, kid |-> 0, set |-> S,
           byte |-> "none", all |-> 0, free |-> 0, read |-> 0]
  BY DEF Frame
<1>2. f \in Frames
  BY ONLY <1>1, S \in SUBSET (Kids \cup {Manager}), do \in {"parent", "walk"} DEF Frames, LoopDoes, Signs
<1> QED
  BY <1>1, <1>2 DEF FrameFits, InLoop, Plain, LoopDoes, Joining, CountDoes

LEMMA LoopKeeps ==
  ASSUME PoolIInv, Register \/ Build \/ Block \/ Select \/ WalkEnds \/ Report
  PROVE  PoolIInv' /\ usr1Pending' = usr1Pending
<1>0. /\ stack # <<>> /\ Top.do \in {"register", "build", "listen", "blocked", "walk", "parent"} /\ Stacked
      /\ UNCHANGED <<gone, list, pipe, child, drift, childnum, late, freechildnum, usr1Pending>>
  BY DEF PoolIInv, PoolTyped, Stacked, Register, Build, Block, Select, WalkEnds, Report, Command, Runs, kidVars,
         poolVars, signalVars, historyVars
<1>1. InLoop(Top) /\ Plain(Top) /\ Top \in Frames /\ Top = stack[1] /\ 1 \in DOMAIN stack /\ FrameFits(Top)
  BY <1>0, TopFrame DEF InLoop, Plain, LoopDoes
<1>2. /\ \A k \in Listed : child[k] \notin {"none", "forked"}
      /\ \A k \in Top.set \cap Kids :
           /\ child[k] \notin {"none", "forked"}
           /\ Top.do \notin {"listen", "blocked"} => pipe[k] # <<>> \/ ~Alive(k)
      /\ Top.set \subseteq Kids \cup {Manager}
  <2>1. \A k \in Listed : child[k] \notin {"none", "forked"}
    BY <1>0 DEF PoolIInv, KidsTrue, Known, Listed
  <2>2. Found(Top)
    BY <1>1 DEF PoolIInv, FoundTrue
  <2>3. Top.set \subseteq Kids \cup {Manager}
    BY <1>1 DEF Frames
  <2> QED
    BY <2>1, <2>2, <2>3 DEF Found
<1>3. CASE Register \/ Build \/ WalkEnds
  <2>1. TopBecomes(Listening)
    BY <1>0, <1>1, <1>3, ListeningFrame DEF TopBecomes, Register, Build, WalkEnds
  <2> QED
    BY <1>0, <1>1, <1>2, <2>1, LoopGoesOn, ListeningFrame
<1>4. CASE Block
  <2>1. PICK f : f = [Top EXCEPT !.do = "blocked"]
    OBVIOUS
  <2>2. f \in Frames /\ f.do = "blocked" /\ f.set = Top.set
    BY <1>1, <2>1 DEF Frames, LoopDoes
  <2>3. FrameFits(f) /\ InLoop(f) /\ Plain(f)
    BY <2>2 DEF FrameFits, InLoop, Plain, LoopDoes, Joining, CountDoes
  <2>4. TopBecomes(f)
    BY <1>0, <1>1, <1>4, <2>1, <2>2, <2>3 DEF TopBecomes, Block
  <2> QED
    BY <1>0, <1>1, <1>2, <2>2, <2>3, <2>4, LoopGoesOn
<1>5. CASE Select
  <2>1. PICK S : S = Readable
    OBVIOUS
  <2>2. /\ S \in SUBSET (Kids \cup {Manager})
        /\ \A k \in S \cap Kids : k \in Top.set /\ (pipe[k] # <<>> \/ ~Alive(k))
    <3>1. Manager \notin Kids
      BY ProcPoolAssumption DEF Manager
    <3> QED
      BY <2>1, <3>1 DEF Readable, Ended
  <2>3. PICK f : /\ Replace(f)
                 /\ f = [Frame("parent") EXCEPT !.set = S] \/ f = [Frame("walk") EXCEPT !.set = S]
    BY <1>5, <2>1 DEF Select, Walking
  <2>4. f \in Frames /\ f.set = S /\ FrameFits(f) /\ InLoop(f) /\ Plain(f)
    BY <2>2, <2>3, SetFrame
  <2>5. TopBecomes(f)
    BY <1>0, <1>1, <2>3, <2>4 DEF TopBecomes
  <2> QED
    BY <1>0, <1>1, <1>2, <2>2, <2>4, <2>5, LoopGoesOn
<1>6. CASE Report
  <2>0. PICK S \in SUBSET (Kids \cup {Manager}) : S = Top.set
    BY <1>2
  <2>1. PICK f : Replace(f) /\ f = [Frame("walk") EXCEPT !.set = S]
    BY <1>6, <2>0 DEF Report, Walking
  <2>2. f \in Frames /\ f.set = S /\ FrameFits(f) /\ InLoop(f) /\ Plain(f)
    BY <2>1, SetFrame
  <2>3. TopBecomes(f)
    BY <1>0, <1>1, <2>1, <2>2 DEF TopBecomes
  <2>4. Top.do = "parent"
    BY <1>6 DEF Report, Command, Runs
  <2> QED
    BY <1>0, <1>1, <1>2, <2>0, <2>2, <2>3, <2>4, LoopGoesOn
<1> QED
  BY <1>0, <1>3, <1>4, <1>5, <1>6

-----------------------------------------------------------------------------
(***************************************************************************)
(* The registration of a child, and the counters.                          *)
(***************************************************************************)
\* What holds of the frames that the step leaves alone, while the list stays.
LEMMA OthersStay ==
  ASSUME PoolIInv
  PROVE  \A i \in DOMAIN stack :
            /\ Joins(stack[i]) => stack[i].kid \in Kids \ Listed /\ child[stack[i].kid] # "none"
            /\ stack[i].do \in {"told", "lost"} => stack[i].kid \in Listed
            /\ stack[i].do = "lost" => pipe[stack[i].kid] = <<>>
BY DEF PoolIInv, Awaited, FoundTrue, Found

LEMMA ForkKeeps ==
  ASSUME PoolIInv, Fork
  PROVE  PoolIInv' /\ usr1Pending' = usr1Pending
<1>0. /\ Stacked /\ stack # <<>> /\ Top.do = "fork" /\ PoolTyped
      /\ UNCHANGED <<gone, pipe, list, childnum, freechildnum, usr1Pending, drift, late>>
  BY DEF PoolIInv, PoolTyped, Stacked, Fork, Runs, poolVars, signalVars, historyVars
<1>1. Top = stack[1] /\ 1 \in DOMAIN stack /\ Top \in Frames /\ FrameFits(Top)
  BY <1>0, TopFrame
<1>2. CASE stack' = Tail(stack) /\ child' = child
  <2>1. MayEnd /\ usr1Pending' \in Int
    BY <1>0, <1>2, NoneEnds DEF PoolTyped
  <2>2. Stacked' /\ stack' # <<>> /\ Carries(0, 1)
    BY <1>0, <1>2, Popped
  <2> QED
    BY <1>0, <2>1, <2>2, HandlersOnly
<1>3. ASSUME NEW k \in Unborn, child' = [child EXCEPT ![k] = "forked"], Top.todo > 0,
             Replace([Top EXCEPT !.do = "wait", !.kid = k,
                                 !.todo = IF @ < Cardinality(Unborn) THEN @ ELSE Cardinality(Unborn)])
      PROVE  PoolIInv'
  <2>1. Cardinality(Unborn) \in Nat \ {0}
    <3>1. IsFiniteSet(Unborn)
      BY ProcPoolAssumption, FS_Subset DEF Unborn
    <3>2. Cardinality(Unborn) # 0
      BY <1>3, <3>1, FS_EmptySet
    <3> QED
      BY <3>1, <3>2, FS_CardinalityType
  <2>2. PICK left \in Nat \ {0} : left = Cardinality(Unborn)
    BY <2>1
  <2>3. k \in Kids /\ child[k] = "none"
    BY <1>3 DEF Unborn
  <2>4. PICK f : Replace(f) /\ f = [Top EXCEPT !.do = "wait", !.kid = k, !.todo = IF @ < left THEN @ ELSE left]
    BY <1>3, <2>2
  <2>5. Top.todo \in Int
    BY <1>1 DEF Frames
  <2>6. f \in Frames /\ f.do = "wait" /\ f.kid = k /\ f.todo > 0 /\ f.set = Top.set
    <3>1. PICK n \in Int : n = (IF Top.todo < left THEN Top.todo ELSE left) /\ n > 0
      BY <1>3, <2>5
    <3>2. f = [Top EXCEPT !.do = "wait", !.kid = k, !.todo = n]
      BY <2>4, <3>1
    <3> QED
      BY <1>1, <2>3, <3>1, <3>2 DEF Frames, HandlerDoes
  <2>7. FrameFits(f) /\ ~InLoop(f) /\ ~InLoop(Top)
    BY <1>0, <2>6 DEF FrameFits, InLoop, LoopDoes, CountDoes, Joining
  <2>8. TopBecomes(f)
    BY <1>0, <2>4, <2>6, <2>7 DEF TopBecomes
  <2>9. k \notin Listed
    BY <1>0, <2>3 DEF PoolIInv, KidsTrue, Known, Listed
  <2>10. k \notin Coming
    BY <2>3 DEF PoolIInv, Awaited, Coming, Joins
  <2>11. Coming' = Coming /\ Told' = Told /\ (Ending' <=> Ending)
    BY <1>0, <2>6, <2>8, TopKinds DEF Joining, CountDoes
  <2>12. /\ child' \in [Kids -> Lives] /\ child'[k] = "forked" /\ \A j \in Kids : j # k => child'[j] = child[j]
    BY <1>0, <1>3, <2>3 DEF PoolTyped, Lives
  <2>13. Stacked' /\ stack' # <<>>
    BY <2>8, TopChanges
  <2>14. Listed' = Listed /\ Free' = Free /\ ListedOnce' /\ Listed \subseteq Kids
    BY <1>0, SameList, Entries DEF PoolIInv
  <2>15. PoolTyped' /\ LoopBelow'
    BY <1>0, <2>12, <2>13 DEF PoolTyped, Stacked
  <2>16. KidsTrue'
    <3>1. Unlisted(k)'
      <4>1. Unlisted(k)
        BY <1>0, <2>3, <2>9, <2>10 DEF PoolIInv, KidsTrue
      <4> QED
        BY <1>0, <2>3, <2>12, <4>1 DEF Unlisted
    <3>2. \A j \in Kids : j # k => (Unlisted(j) => Unlisted(j)') /\ (Joined(j) => Joined(j)')
      BY <1>0, <2>12 DEF Unlisted, Joined
    <3>3. ASSUME NEW j \in Kids, j # k, NEW s, Known(j, s) PROVE Known(j, s)'
      BY <1>0, <2>11, <2>12, <3>3 DEF Known, LastWord
    <3>4. \A i \in DOMAIN list : list[i].kid \in Kids /\ list[i].kid # k
      BY <2>9, <2>14 DEF Listed
    <3> QED
      BY <1>0, <2>10, <2>11, <2>14, <3>1, <3>2, <3>3, <3>4 DEF PoolIInv, KidsTrue
  <2>17. Awaited' /\ FoundTrue'
    <3>1. \A j \in Kids : /\ child[j] # "none" => child'[j] # "none"
                          /\ child[j] \notin {"none", "forked"} => child'[j] \notin {"none", "forked"}
                          /\ child[j] \notin {"none", "forked"} /\ ~Alive(j) => ~Alive(j)'
      BY <2>3, <2>12 DEF Alive
    <3>2. f.kid \in Kids \ Listed' /\ child'[f.kid] # "none" /\ child[f.kid] = "none"
      BY <2>3, <2>6, <2>9, <2>12, <2>14
    <3>3. \A i \in DOMAIN stack : i # 1 =>
            /\ Joins(stack[i]) => stack[i].kid \notin Listed'
            /\ stack[i].do \in {"told", "lost"} => stack[i].kid \in Listed'
            /\ stack[i].do = "lost" => pipe'[stack[i].kid] = <<>>
      BY <1>0, <2>14, OthersStay
    <3> QED
      BY <1>0, <2>6, <2>8, <3>1, <3>2, <3>3, TopStep
  <2>18. CountersTrue'
    <3>1. ~Counting(f) /\ ~Counting(Top)
      BY <1>0, <2>6 DEF Counting
    <3> QED
      BY <1>0, <2>8, <2>14, <3>1, CountersKept
  <2>19. EndTrue'
    <3>1. \A j \in Listed : ~Alive(j) => ~Alive(j)'
      BY <2>9, <2>12, <2>14 DEF Alive
    <3> QED
      BY <1>0, <2>11, <2>13, <2>14, <3>1 DEF PoolIInv, EndTrue
  <2> QED
    BY <2>14, <2>15, <2>16, <2>17, <2>18, <2>19 DEF PoolIInv
<1> QED
  BY <1>0, <1>2, <1>3 DEF Fork

LEMMA RegisteredKeeps ==
  ASSUME PoolIInv, Registered
  PROVE  PoolIInv' /\ usr1Pending' = usr1Pending
<1>0. /\ Stacked /\ stack # <<>> /\ Top.do = "wait" /\ PoolTyped /\ pipe[Top.kid] # <<>>
      /\ UNCHANGED <<gone, child, list, childnum, freechildnum, usr1Pending, late>>
  BY DEF PoolIInv, PoolTyped, Stacked, Registered, Runs, poolVars, signalVars
<1>1. Top = stack[1] /\ 1 \in DOMAIN stack /\ Top \in Frames /\ FrameFits(Top) /\ Joins(Top) /\ ~Joining(Top)
  BY <1>0, TopFrame DEF Joins, Joining, CountDoes
<1>2. PICK k : k = Top.kid
  OBVIOUS
<1>3. k \in Kids /\ k \notin Listed /\ child[k] # "none" /\ pipe[k] # <<>>
  BY <1>0, <1>1, <1>2, OthersStay
<1>4. k \notin Coming
  BY <1>1, <1>2 DEF PoolIInv, Awaited, Coming, Joins
<1>5. Unlisted(k) /\ pipe[k] = <<READY>>
  <2>1. Unlisted(k)
    BY <1>0, <1>3, <1>4 DEF PoolIInv, KidsTrue
  <2> QED
    BY <1>0, <1>3, <2>1 DEF Unlisted, PoolTyped, Bytes
<1>6. Head(pipe[k]) = READY /\ Tail(pipe[k]) = <<>>
  BY <1>5, Letters
<1>7. PICK f : Replace(f) /\ f = [Top EXCEPT !.do = "readall", !.byte = READY, !.all = 1, !.free = 1]
  BY <1>2, <1>6 DEF Registered
<1>8. /\ f \in Frames /\ f.do = "readall" /\ f.kid = k /\ f.todo = Top.todo /\ f.set = Top.set
      /\ f.byte = READY /\ f.all = 1 /\ f.free = 1
  BY <1>1, <1>2, <1>7 DEF Frames, CountDoes, Signs
<1>9. FrameFits(f) /\ ~InLoop(f) /\ ~InLoop(Top) /\ Joining(f) /\ Counting(f) /\ ~Counting(Top)
  BY <1>0, <1>1, <1>8 DEF FrameFits, InLoop, LoopDoes, CountDoes, Joining, Counting
<1>10. TopBecomes(f)
  BY <1>0, <1>7, <1>8, <1>9 DEF TopBecomes
<1>11. Stacked' /\ stack' # <<>> /\ stack'[1] = f /\ DOMAIN stack' = DOMAIN stack
       /\ \A n \in DOMAIN stack : n # 1 => stack'[n] = stack[n]
  BY <1>10, TopChanges
<1>12. pipe' \in [Kids -> Bytes] /\ pipe'[k] = <<>> /\ \A j \in Kids : j # k => pipe'[j] = pipe[j]
  BY <1>0, <1>2, <1>3, <1>6 DEF Registered, PoolTyped, Bytes
<1>13. Coming' = Coming \cup {k} /\ Told' = Told /\ (Ending' <=> Ending)
  BY <1>0, <1>1, <1>8, <1>9, <1>10, TopKinds
<1>14. Listed' = Listed /\ Free' = Free /\ ListedOnce' /\ Listed \subseteq Kids
  BY <1>0, SameList, Entries DEF PoolIInv
<1>15. drift' = (IF Storing THEN "all" ELSE drift) /\ drift' \in {"none", "free", "all"}
  BY <1>0 DEF Registered, PoolTyped
<1>16. PoolTyped' /\ LoopBelow'
  BY <1>0, <1>11, <1>12, <1>15 DEF PoolTyped, Stacked
<1>17. KidsTrue'
  <2>1. Joined(k)'
    BY <1>0, <1>3, <1>5, <1>12, Letters DEF Joined, Unlisted
  <2>2. \A j \in Kids : j # k => (Unlisted(j) => Unlisted(j)') /\ (Joined(j) => Joined(j)')
    BY <1>0, <1>12 DEF Unlisted, Joined
  <2>3. ASSUME NEW j \in Kids, j # k, NEW s, Known(j, s) PROVE Known(j, s)'
    BY <1>0, <1>12, <1>13, <1>15, <2>3 DEF Known, LastWord
  <2>4. \A i \in DOMAIN list : list[i].kid \in Kids /\ list[i].kid # k
    BY <1>3, <1>14 DEF Listed
  <2> QED
    BY <1>0, <1>13, <1>14, <2>1, <2>2, <2>3, <2>4 DEF PoolIInv, KidsTrue
<1>18. Awaited' /\ FoundTrue'
  <2>1. \A j \in Kids : /\ child[j] # "none" => child'[j] # "none"
                        /\ child[j] \notin {"none", "forked"} => child'[j] \notin {"none", "forked"}
                        /\ child[j] \notin {"none", "forked"} /\ ~Alive(j) => ~Alive(j)'
    BY <1>0 DEF Alive
  <2>2. f.kid \in Kids \ Listed' /\ child'[f.kid] # "none" /\ Joins(Top) /\ f.kid = Top.kid
    BY <1>0, <1>1, <1>2, <1>3, <1>8, <1>14
  <2>3. \A i \in DOMAIN stack : i # 1 =>
          /\ Joins(stack[i]) => stack[i].kid \notin Listed'
          /\ stack[i].do \in {"told", "lost"} => stack[i].kid \in Listed'
          /\ stack[i].do = "lost" => pipe'[stack[i].kid] = <<>>
    BY <1>12, <1>14, OthersStay
  <2>4. \A j \in Kids : (\E i \in DOMAIN stack' : j \in stack'[i].set) /\ pipe[j] # <<>> => pipe'[j] # <<>>
    <3>1. ASSUME NEW i \in DOMAIN stack', k \in stack'[i].set PROVE FALSE
      <4>1. k \in stack[i].set /\ i \in DOMAIN stack
        BY <1>1, <1>8, <1>11, <3>1
      <4>2. Found(stack[i])
        BY <4>1 DEF PoolIInv, FoundTrue
      <4> QED
        BY <1>1, <1>2, <1>3, <4>1, <4>2 DEF Found
    <3> QED
      BY <1>12, <3>1
  <2> QED
    BY <1>0, <1>8, <1>10, <2>1, <2>2, <2>3, <2>4, TopStep
<1>19. CountersTrue'
  <2>1. Len(list') = Cardinality(Listed')
    BY <1>0, <1>14 DEF PoolIInv, CountersTrue
  <2>2. ~Storing => /\ drift # "all" => childnum = Len(list)
                    /\ drift = "none" => freechildnum = Cardinality(Free)
    BY <1>0 DEF PoolIInv, CountersTrue
  <2>3. ToAll(f) = 1 /\ ToFree(f) = 1 /\ ToList(f) = 1 /\ f.do # "writeall" /\ f.do # "writefree"
    BY <1>8, <1>9 DEF ToAll, ToFree, ToList, CountDoes
  <2> QED
    BY <1>0, <1>9, <1>10, <1>14, <1>15, <2>1, <2>2, <2>3, CountersTop
<1>20. EndTrue'
  <2>1. \A j : Alive(j)' = Alive(j)
    BY <1>0 DEF Alive
  <2> QED
    BY <1>0, <1>11, <1>13, <1>14, <2>1 DEF PoolIInv, EndTrue
<1> QED
  BY <1>0, <1>14, <1>16, <1>17, <1>18, <1>19, <1>20 DEF PoolIInv

\* A counter is read or written.
LEMMA CountStep ==
  ASSUME PoolIInv, NEW f, TopBecomes(f), Top.do \in CountDoes, f.do \in CountDoes \cup {"add", "walk"},
         f.set = Top.set, f.kid = Top.kid \/ ~Joining(f), Joining(f) <=> Joining(Top),
         list' = list, pipe' = pipe, child' = child, drift' = drift, late' = late, gone' = gone,
         usr1Pending' = usr1Pending, childnum' \in Int, freechildnum' \in Int, CountersTrue'
  PROVE  PoolIInv'
<1>1. Stacked' /\ stack' # <<>> /\ Top = stack[1] /\ 1 \in DOMAIN stack /\ stack # <<>>
  BY TopChanges DEF TopBecomes
<1>2. Listed' = Listed /\ ListedOnce'
  BY SameList DEF PoolIInv
<1>3. PoolTyped' /\ LoopBelow'
  BY <1>1 DEF PoolIInv, PoolTyped, Stacked
<1>4. Coming' = Coming /\ Told' = Told /\ (Ending' <=> Ending)
  BY TopKinds DEF CountDoes
<1>5. KidsTrue'
  <2>1. MayEnd
    BY NoneEnds DEF PoolIInv, PoolTyped
  <2> QED
    BY <1>1, <1>4, <2>1, KidsKept DEF PoolIInv
<1>6. Awaited' /\ FoundTrue'
  <2>1. \A j \in Kids : /\ child[j] # "none" => child'[j] # "none"
                        /\ child[j] \notin {"none", "forked"} => child'[j] \notin {"none", "forked"}
                        /\ child[j] \notin {"none", "forked"} /\ ~Alive(j) => ~Alive(j)'
    BY DEF Alive
  <2>2. Joins(f) => Joining(f)
    BY DEF Joins, CountDoes
  <2>3. Joins(f) => f.kid \in Kids \ Listed' /\ child'[f.kid] # "none" /\ Joins(Top) /\ f.kid = Top.kid
    BY <1>1, <1>2, <2>2, OthersStay DEF Joins
  <2>4. \A i \in DOMAIN stack : i # 1 =>
          /\ Joins(stack[i]) => stack[i].kid \notin Listed'
          /\ stack[i].do \in {"told", "lost"} => stack[i].kid \in Listed'
          /\ stack[i].do = "lost" => pipe'[stack[i].kid] = <<>>
    BY <1>2, OthersStay
  <2>5. Top.do \notin {"listen", "blocked"} /\ f.do \notin {"told", "lost"}
    BY DEF CountDoes
  <2> QED
    BY <2>1, <2>3, <2>4, <2>5, TopStep
<1>7. EndTrue'
  <2>1. \A j : Alive(j)' = Alive(j)
    BY DEF Alive
  <2> QED
    BY <1>1, <1>2, <1>4, <2>1 DEF PoolIInv, EndTrue
<1> QED
  BY <1>2, <1>3, <1>5, <1>6, <1>7 DEF PoolIInv

\* What is known of the counters when the frame on the top counts.
LEMMA TopCounts ==
  ASSUME PoolIInv, stack # <<>>, Counting(Top)
  PROVE  /\ Len(list) = Cardinality(Listed)
         /\ drift # "all" => /\ childnum + ToAll(Top) = Len(list) + ToList(Top)
                             /\ Top.do = "writeall" => Top.read = childnum
         /\ drift = "none" => /\ freechildnum + ToFree(Top) = Cardinality(Free) + ToList(Top)
                              /\ Top.do = "writefree" => Top.read = freechildnum
         /\ Cardinality(Free) \in Nat /\ Len(list) \in Nat
<1>1. Top = stack[1] /\ 1 \in DOMAIN stack
  BY TopFrame DEF PoolIInv, PoolTyped, Stacked
<1>2. Cardinality(Free) \in Nat /\ Len(list) \in Nat
  <2>1. IsFiniteSet(Free)
    BY ProcPoolAssumption, Entries, FS_Subset DEF PoolIInv
  <2> QED
    BY <2>1, FS_CardinalityType DEF PoolIInv, PoolTyped
<1> QED
  BY <1>1, <1>2 DEF PoolIInv, CountersTrue

LEMMA ReadKeeps ==
  ASSUME PoolIInv, ReadAll \/ ReadFree
  PROVE  PoolIInv' /\ usr1Pending' = usr1Pending
<1>0. /\ Stacked /\ stack # <<>> /\ Top.do \in {"readall", "readfree"} /\ PoolTyped
      /\ UNCHANGED <<gone, pipe, child, list, childnum, freechildnum, usr1Pending, drift, late>>
  BY DEF PoolIInv, PoolTyped, Stacked, ReadAll, ReadFree, Runs, poolVars, signalVars, kidVars, historyVars
<1>1. Top = stack[1] /\ 1 \in DOMAIN stack /\ Top \in Frames /\ FrameFits(Top) /\ Counting(Top)
  BY <1>0, TopFrame DEF Counting
<1>2. PICK f : /\ Replace(f)
               /\ \/ f = [Top EXCEPT !.do = "writeall", !.read = childnum] /\ Top.do = "readall"
                  \/ f = [Top EXCEPT !.do = "writefree", !.read = freechildnum] /\ Top.do = "readfree"
  BY DEF ReadAll, ReadFree, Runs
<1>3. /\ f \in Frames /\ f.kid = Top.kid /\ f.set = Top.set /\ f.todo = Top.todo /\ f.byte = Top.byte
      /\ f.all = Top.all /\ f.free = Top.free
      /\ \/ f.do = "writeall" /\ Top.do = "readall" /\ f.read = childnum
         \/ f.do = "writefree" /\ Top.do = "readfree" /\ f.read = freechildnum
  BY <1>0, <1>1, <1>2 DEF Frames, CountDoes, PoolTyped
<1>4. /\ FrameFits(f) /\ (InLoop(f) <=> InLoop(Top)) /\ (Joining(f) <=> Joining(Top)) /\ Counting(f)
      /\ ToAll(f) = ToAll(Top) /\ ToFree(f) = ToFree(Top) /\ ToList(f) = ToList(Top)
  BY <1>1, <1>3 DEF FrameFits, InLoop, LoopDoes, CountDoes, Joining, Counting, ToAll, ToFree, ToList
<1>5. TopBecomes(f)
  BY <1>0, <1>2, <1>3, <1>4 DEF TopBecomes
<1>6. CountersTrue'
  BY <1>0, <1>1, <1>3, <1>4, <1>5, TopCounts, SameList, CountersTop
<1>7. Top.do \in CountDoes /\ f.do \in CountDoes /\ childnum' \in Int /\ freechildnum' \in Int
  BY <1>0, <1>3 DEF CountDoes, PoolTyped
<1> QED
  BY <1>0, <1>3, <1>4, <1>5, <1>6, <1>7, CountStep

\* What a frame becomes when the counters are written.
LEMMA CountedFrame ==
  ASSUME PoolIInv, stack # <<>>, Top.do \in {"writeall", "writefree"}, Replace(Counted),
         Top.do = "writeall" => Top.free = 0
  PROVE  \E f : /\ TopBecomes(f) /\ f.do \in {"add", "walk"} /\ f.set = Top.set
                /\ f.kid = Top.kid \/ ~Joining(f)
                /\ Joining(f) <=> Joining(Top)
                /\ Counting(f) <=> f.do = "add"
                /\ ToAll(f) = 0 /\ ToFree(f) = 0 /\ ToList(f) = ToList(Top)
                /\ f.do = "walk" => ToList(Top) = 0
<1>1. Top = stack[1] /\ 1 \in DOMAIN stack /\ Top \in Frames /\ FrameFits(Top)
  BY TopFrame DEF PoolIInv, PoolTyped, Stacked
<1>2. CASE Top.all = 1
  <2>1. PICK f : Replace(f) /\ f = [Top EXCEPT !.do = "add"]
    BY <1>2 DEF Counted
  <2>2. /\ f \in Frames /\ f.kid = Top.kid /\ f.set = Top.set /\ f.todo = Top.todo /\ f.byte = Top.byte
        /\ f.all = 1 /\ f.free = Top.free /\ f.do = "add"
    BY <1>1, <1>2, <2>1 DEF Frames, HandlerDoes
  <2>3. Joining(f) /\ Joining(Top) /\ Counting(f) /\ ToAll(f) = 0 /\ ToFree(f) = 0 /\ ToList(f) = ToList(Top)
    BY <1>2, <2>2 DEF Joining, CountDoes, Counting, ToAll, ToFree, ToList
  <2>4. FrameFits(f)
    BY <1>1, <2>2, <2>3 DEF FrameFits
  <2>5. ~InLoop(f) /\ ~InLoop(Top)
    BY <1>2, <2>2 DEF InLoop, LoopDoes, CountDoes
  <2>6. TopBecomes(f)
    BY <2>1, <2>2, <2>4, <2>5 DEF TopBecomes
  <2> QED
    BY <2>2, <2>3, <2>6
<1>3. CASE Top.all # 1
  <2>1. PICK S \in SUBSET (Kids \cup {Manager}) : S = Top.set
    BY <1>1 DEF Frames
  <2>2. PICK f : Replace(f) /\ f = [Frame("walk") EXCEPT !.set = S]
    BY <1>3, <2>1 DEF Counted, Walking
  <2>3. f \in Frames /\ f.do = "walk" /\ f.set = Top.set /\ FrameFits(f) /\ InLoop(f)
    BY <2>1, <2>2, SetFrame
  <2>4. /\ ~Joining(f) /\ ~Joining(Top) /\ ~Counting(f)
        /\ ToAll(f) = 0 /\ ToFree(f) = 0 /\ ToList(f) = 0 /\ ToList(Top) = 0
    BY <1>3, <2>3 DEF Joining, CountDoes, Counting, ToAll, ToFree, ToList
  <2>5. InLoop(Top)
    BY <1>3 DEF InLoop, CountDoes
  <2>6. TopBecomes(f)
    BY <2>2, <2>3, <2>5 DEF TopBecomes
  <2> QED
    BY <2>3, <2>4, <2>6
<1> QED
  BY <1>2, <1>3

LEMMA WriteKeeps ==
  ASSUME PoolIInv, WriteAll \/ WriteFree
  PROVE  PoolIInv' /\ usr1Pending' = usr1Pending
<1>0. /\ Stacked /\ stack # <<>> /\ Top.do \in {"writeall", "writefree"} /\ PoolTyped
      /\ UNCHANGED <<gone, pipe, child, list, usr1Pending, drift, late>>
  BY DEF PoolIInv, PoolTyped, Stacked, WriteAll, WriteFree, Runs, poolVars, signalVars, kidVars, historyVars
<1>1. /\ Top = stack[1] /\ 1 \in DOMAIN stack /\ Top \in Frames /\ FrameFits(Top) /\ Counting(Top)
      /\ Top.do \in CountDoes /\ Top.all \in Int /\ Top.free \in Int /\ Top.read \in Int
  BY <1>0, TopFrame DEF Counting, CountDoes, Frames, Signs
<1>2. Listed' = Listed /\ Free' = Free
  BY <1>0, SameList
<1>3. CASE WriteAll
  <2>0. Top.do = "writeall" /\ childnum' = Top.read + Top.all /\ freechildnum' = freechildnum
        /\ ToAll(Top) = Top.all /\ ToFree(Top) = Top.free
    BY <1>3 DEF WriteAll, Runs, ToAll, ToFree, CountDoes
  <2>1. CASE Top.free # 0
    <3>1. PICK f : Replace(f) /\ f = [Top EXCEPT !.do = "readfree"]
      BY <1>3, <2>1 DEF WriteAll
    <3>2. /\ f \in Frames /\ f.kid = Top.kid /\ f.set = Top.set /\ f.todo = Top.todo /\ f.byte = Top.byte
          /\ f.all = Top.all /\ f.free = Top.free /\ f.do = "readfree"
      BY <1>1, <3>1 DEF Frames, CountDoes
    <3>3. /\ FrameFits(f) /\ (InLoop(f) <=> InLoop(Top)) /\ (Joining(f) <=> Joining(Top)) /\ Counting(f)
          /\ ToAll(f) = 0 /\ ToFree(f) = ToFree(Top) /\ ToList(f) = ToList(Top)
      BY <1>1, <2>0, <2>1, <3>2 DEF FrameFits, InLoop, LoopDoes, CountDoes, Joining, Counting, ToAll, ToFree, ToList
    <3>4. TopBecomes(f)
      BY <1>0, <3>1, <3>2, <3>3 DEF TopBecomes
    <3>5. CountersTrue'
      BY <1>0, <1>1, <1>2, <2>0, <3>2, <3>3, <3>4, TopCounts, CountersTop
    <3>6. f.do \in CountDoes /\ childnum' \in Int /\ freechildnum' \in Int
      BY <1>0, <1>1, <2>0, <3>2 DEF CountDoes, PoolTyped
    <3> QED
      BY <1>0, <1>1, <3>2, <3>3, <3>4, <3>5, <3>6, CountStep
  <2>2. CASE Top.free = 0
    <3>1. Replace(Counted)
      BY <1>3, <2>2 DEF WriteAll
    <3>2. PICK f : /\ TopBecomes(f) /\ f.do \in {"add", "walk"} /\ f.set = Top.set
                   /\ f.kid = Top.kid \/ ~Joining(f)
                   /\ Joining(f) <=> Joining(Top)
                   /\ Counting(f) <=> f.do = "add"
                   /\ ToAll(f) = 0 /\ ToFree(f) = 0 /\ ToList(f) = ToList(Top)
                   /\ f.do = "walk" => ToList(Top) = 0
      BY <1>0, <2>0, <2>2, <3>1, CountedFrame
    <3>3. CountersTrue'
      <4>1. ToList(Top) \in Int
        BY DEF ToList
      <4>2. drift # "all" => childnum' = Len(list) + ToList(Top)
        BY <1>0, <1>1, <2>0, <4>1, TopCounts DEF PoolTyped
      <4>3. drift = "none" => freechildnum' = Cardinality(Free) + ToList(Top)
        BY <1>0, <1>1, <2>0, <2>2, <4>1, TopCounts DEF PoolTyped
      <4> QED
        BY <1>0, <1>1, <1>2, <2>0, <3>2, <4>1, <4>2, <4>3, TopCounts, CountersTop DEF PoolTyped
    <3>4. childnum' \in Int /\ freechildnum' \in Int
      BY <1>0, <1>1, <2>0 DEF PoolTyped
    <3> QED
      BY <1>0, <1>1, <3>2, <3>3, <3>4, CountStep
  <2> QED
    BY <1>0, <2>1, <2>2
<1>4. CASE WriteFree
  <2>0. Top.do = "writefree" /\ freechildnum' = Top.read + Top.free /\ childnum' = childnum
        /\ ToAll(Top) = 0 /\ ToFree(Top) = Top.free
    BY <1>4 DEF WriteFree, Runs, ToAll, ToFree, CountDoes
  <2>1. PICK f : /\ TopBecomes(f) /\ f.do \in {"add", "walk"} /\ f.set = Top.set
                 /\ f.kid = Top.kid \/ ~Joining(f)
                 /\ Joining(f) <=> Joining(Top)
                 /\ Counting(f) <=> f.do = "add"
                 /\ ToAll(f) = 0 /\ ToFree(f) = 0 /\ ToList(f) = ToList(Top)
                 /\ f.do = "walk" => ToList(Top) = 0
    <3>1. Replace(Counted)
      BY <1>4 DEF WriteFree
    <3> QED
      BY <1>0, <2>0, <3>1, CountedFrame
  <2>2. CountersTrue'
    <3>1. ToList(Top) \in Int
      BY DEF ToList
    <3>2. drift # "all" => childnum' = Len(list) + ToList(Top)
      BY <1>0, <1>1, <2>0, <3>1, TopCounts DEF PoolTyped
    <3>3. drift = "none" => freechildnum' = Cardinality(Free) + ToList(Top)
      BY <1>0, <1>1, <2>0, <3>1, TopCounts DEF PoolTyped
    <3>4. Len(list') = Cardinality(Listed') /\ f.do \notin {"writeall", "writefree"}
      BY <1>0, <1>1, <1>2, <2>1, TopCounts
    <3>5. drift # "all" => /\ ~Counting(f) => childnum' = Len(list')
                           /\ Counting(f) => childnum' + ToAll(f) = Len(list') + ToList(f)
      BY <1>0, <1>1, <2>0, <2>1, <3>1, <3>2, TopCounts DEF PoolTyped
    <3>6. drift = "none" => /\ ~Counting(f) => freechildnum' = Cardinality(Free')
                            /\ Counting(f) => freechildnum' + ToFree(f) = Cardinality(Free') + ToList(f)
      BY <1>0, <1>1, <1>2, <2>0, <2>1, <3>1, <3>3, TopCounts DEF PoolTyped
    <3> QED
      BY <1>0, <1>1, <2>1, <3>4, <3>5, <3>6, CountersTop
  <2>3. childnum' \in Int /\ freechildnum' \in Int
    BY <1>0, <1>1, <2>0 DEF PoolTyped
  <2> QED
    BY <1>0, <1>1, <2>1, <2>2, <2>3, CountStep
<1> QED
  BY <1>0, <1>3, <1>4

-----------------------------------------------------------------------------
(***************************************************************************)
(* The steps that change the list.                                         *)
(***************************************************************************)
\* A child that has registered is put in front of the list.
LEMMA AddKeeps ==
  ASSUME PoolIInv, Add
  PROVE  PoolIInv' /\ usr1Pending' = usr1Pending
<1>0. /\ Stacked /\ stack # <<>> /\ Top.do = "add" /\ PoolTyped /\ ListedOnce
      /\ UNCHANGED <<gone, child, pipe, childnum, freechildnum, usr1Pending, drift>>
  BY DEF PoolIInv, PoolTyped, Stacked, Add, Runs, kidVars, signalVars
<1>1. /\ Top = stack[1] /\ 1 \in DOMAIN stack /\ Top \in Frames /\ FrameFits(Top) /\ Joins(Top) /\ Joining(Top)
      /\ Counting(Top) /\ Top.todo - 1 \in Nat /\ Top.byte = READY
      /\ Top.sig \in {"none", "chld", "usr1", "alrm"}
  <2>1. Top = stack[1] /\ 1 \in DOMAIN stack /\ Top \in Frames /\ FrameFits(Top)
    BY <1>0, TopFrame
  <2>2. Joining(Top) /\ Joins(Top) /\ Counting(Top)
    BY <1>0, <2>1 DEF Joins, Joining, FrameFits, Counting
  <2> QED
    BY <2>1, <2>2 DEF FrameFits, Frames
<1>2. PICK k \in Kids \ Listed : k = Top.kid
  BY <1>1, OthersStay
<1>3. PICK n \in Nat, sig \in {"none", "chld", "usr1", "alrm"} : n = Top.todo - 1 /\ sig = Top.sig
  BY <1>1
<1>4. PICK f : Replace(f) /\ f = InitFrame(n, sig)
  BY <1>3 DEF Add
<1>5. f \in Frames /\ f.do = "fork" /\ f.set = {} /\ Plain(f) /\ FrameFits(f) /\ ~InLoop(f)
  BY <1>4, InitFrameFits
<1>6. TopBecomes(f)
  BY <1>0, <1>1, <1>4, <1>5, Kinds DEF TopBecomes
<1>7. /\ Stacked' /\ stack' # <<>>
      /\ Coming' = Coming \ {k} /\ Told' = Told /\ (Ending' <=> Ending)
  BY <1>0, <1>1, <1>2, <1>5, <1>6, TopChanges, TopKinds, Kinds
<1>8. list' = <<[kid |-> k, status |-> READY]>> \o list
  BY <1>1, <1>2 DEF Add
<1>9. /\ list' \in Seq(Entry) /\ Len(list') = Len(list) + 1 /\ ListedOnce'
      /\ Listed' = Listed \cup {k} /\ Free' = Free \cup {k}
      /\ \A i \in DOMAIN list' : \/ list'[i] = [kid |-> k, status |-> READY]
                                 \/ \E j \in DOMAIN list : list'[i] = list[j]
  BY <1>0, <1>8, Added
<1>10. Listed \subseteq Kids /\ Free \subseteq Listed
  BY <1>0, Entries
<1>11. PoolTyped' /\ LoopBelow'
  BY <1>0, <1>7, <1>9 DEF PoolTyped, Stacked, Entry
<1>12. Joined(k)
  <2>1. k \in Coming
    BY <1>1, <1>2 DEF Coming
  <2> QED
    BY <1>0, <1>2, <2>1 DEF PoolIInv, KidsTrue
<1>13. \A t \in Told : t.kid # k
  BY <1>2, OthersStay DEF Told
<1>14. KidsTrue'
  <2>1. \A j \in Kids : (Unlisted(j) => Unlisted(j)') /\ (Joined(j) => Joined(j)')
    BY <1>0 DEF Unlisted, Joined
  <2>2. ASSUME NEW j, NEW s, Known(j, s) PROVE Known(j, s)'
    BY <1>0, <1>7, <2>2 DEF Known, LastWord
  <2>3. Known(k, READY)'
    <3>1. Known(k, READY)
      BY <1>12, <1>13, Letters DEF Joined, Known, LastWord
    <3> QED
      BY <2>2, <3>1
  <2>4. ASSUME NEW i \in DOMAIN list' PROVE Known(list[i].kid, list[i].status)'
    <3>1. CASE list'[i] = [kid |-> k, status |-> READY]
      BY <2>3, <3>1
    <3>2. ASSUME NEW j \in DOMAIN list, list'[i] = list[j] PROVE Known(list[i].kid, list[i].status)'
      <4>1. PICK x, s : x = list[j].kid /\ s = list[j].status
        OBVIOUS
      <4>2. Known(x, s)
        BY <1>0, <4>1 DEF PoolIInv, KidsTrue
      <4>3. Known(x, s)' /\ x = list'[i].kid /\ s = list'[i].status
        BY <2>2, <3>2, <4>1, <4>2
      <4> QED
        BY <4>3
    <3> QED
      BY <1>9, <3>1, <3>2
  <2> QED
    BY <1>0, <1>7, <1>9, <2>1, <2>4 DEF PoolIInv, KidsTrue
<1>15. Awaited' /\ FoundTrue'
  <2>1. \A j \in Kids : /\ child[j] # "none" => child'[j] # "none"
                        /\ child[j] \notin {"none", "forked"} => child'[j] \notin {"none", "forked"}
                        /\ child[j] \notin {"none", "forked"} /\ ~Alive(j) => ~Alive(j)'
    BY <1>0 DEF Alive
  <2>2. \A i \in DOMAIN stack : i # 1 =>
          /\ Joins(stack[i]) => stack[i].kid \notin Listed'
          /\ stack[i].do \in {"told", "lost"} => stack[i].kid \in Listed'
          /\ stack[i].do = "lost" => pipe'[stack[i].kid] = <<>>
    <3>1. \A i \in DOMAIN stack : i # 1 /\ Joins(stack[i]) => stack[i].kid # k
      BY <1>1, <1>2 DEF PoolIInv, Awaited
    <3> QED
      BY <1>0, <1>9, <3>1, OthersStay
  <2>3. ~Joins(f) /\ f.set \subseteq Top.set /\ f.do = "fork" /\ Top.do = "add"
    BY <1>0, <1>5, Kinds
  <2> QED
    BY <1>0, <1>6, <2>1, <2>2, <2>3, TopStep
<1>16. CountersTrue'
  <2>1. IsFiniteSet(Listed) /\ IsFiniteSet(Free) /\ k \notin Free
    BY <1>2, <1>10, ProcPoolAssumption, FS_Subset
  <2>2. Cardinality(Listed') = Cardinality(Listed) + 1 /\ Cardinality(Free') = Cardinality(Free) + 1
    BY <1>2, <1>9, <2>1, FS_AddElement
  <2>3. ToAll(Top) = 0 /\ ToFree(Top) = 0 /\ ToList(Top) = 1 /\ ~Counting(f)
    BY <1>0, <1>1, <1>5, Kinds DEF ToAll, ToFree, ToList, CountDoes
  <2>4. drift # "all" => childnum' = Len(list')
    BY <1>0, <1>1, <1>9, <2>3, TopCounts DEF PoolTyped
  <2>5. drift = "none" => freechildnum' = Cardinality(Free')
    BY <1>0, <1>1, <2>2, <2>3, TopCounts DEF PoolTyped
  <2>6. Len(list') = Cardinality(Listed')
    BY <1>0, <1>1, <1>9, <2>2, TopCounts
  <2> QED
    BY <1>0, <1>1, <1>6, <2>3, <2>4, <2>5, <2>6, CountersTop
<1>17. EndTrue'
  <2>1. \A j : Alive(j)' = Alive(j)
    BY <1>0 DEF Alive
  <2>2. late' = late \cup IF Ending THEN {k} ELSE {}
    BY <1>2 DEF Add
  <2> QED
    BY <1>0, <1>7, <1>9, <2>1, <2>2 DEF PoolIInv, EndTrue
<1> QED
  BY <1>0, <1>9, <1>11, <1>14, <1>15, <1>16, <1>17 DEF PoolIInv

\* All children on the list are killed.
LEMMA KillAllDoes ==
  ASSUME PoolIInv, stack # <<>>, KillAll
  PROVE  /\ list' \in Seq(Entry) /\ Len(list') = Len(list) /\ ListedOnce' /\ Listed' = Listed
         /\ MayEnd /\ \A k \in Listed : ~Alive(k)'
         /\ drift' \in {"free", "all"} /\ (drift' # "all" => drift # "all")
         /\ UNCHANGED <<pipe, childnum, freechildnum, usr1Pending, late>>
         /\ Coming' = Coming /\ Told' = Told => KidsTrue'
<1>0. PoolTyped /\ ListedOnce /\ KidsTrue
  BY DEF PoolIInv
<1>1. /\ list' \in Seq(Entry) /\ Len(list') = Len(list) /\ ListedOnce' /\ Listed' = Listed
      /\ DOMAIN list' = DOMAIN list
      /\ \A i \in DOMAIN list : list'[i].kid = list[i].kid /\ list'[i].status = DEAD
  BY <1>0, AllDead DEF KillAll
<1>2. MayEnd /\ \A k \in Listed : ~Alive(k)'
  BY <1>0, Killed, Entries DEF KillAll, PoolTyped
<1>3. drift' \in {"free", "all"} /\ (drift' # "all" => drift # "all")
  BY DEF KillAll, Worse
<1>4. UNCHANGED <<pipe, childnum, freechildnum, usr1Pending, late>>
  BY DEF KillAll
<1>5. ASSUME Coming' = Coming, Told' = Told PROVE KidsTrue'
  <2>1. ASSUME NEW k \in Kids PROVE (Unlisted(k) => Unlisted(k)') /\ (Joined(k) => Joined(k)')
    BY <1>2, <1>4, <2>1 DEF Unlisted, Joined, MayEnd
  <2>2. ASSUME NEW k \in Kids, NEW b, LastWord(k, b) PROVE LastWord(k, b)'
    BY <1>2, <1>4, <2>2 DEF LastWord, MayEnd
  <2>3. ASSUME NEW i \in DOMAIN list PROVE Known(list[i].kid, list[i].status)'
    <3>1. PICK k \in Kids, s \in Statuses : k = list[i].kid /\ s = list[i].status
      BY <1>0, Entries
    <3>2. Known(k, s)
      BY <1>0, <3>1 DEF KidsTrue
    <3>3. child'[k] = child[k] \/ child'[k] \in {"zombie", "reaped"}
      BY <1>2 DEF MayEnd
    <3>4. Known(k, DEAD)'
      BY <1>3, <1>4, <1>5, <2>2, <3>2, <3>3, Letters DEF Known
    <3>5. list'[i].kid = k /\ list'[i].status = DEAD
      BY <1>1, <3>1
    <3> QED
      BY <3>4, <3>5
  <2> QED
    BY <1>0, <1>1, <1>5, <2>1, <2>3 DEF KidsTrue
<1> QED
  BY <1>1, <1>2, <1>3, <1>4, <1>5

LEMMA EndingKeeps ==
  ASSUME PoolIInv, RegisterFails \/ Destroyed
  PROVE  PoolIInv' /\ usr1Pending' = usr1Pending
<1>0. /\ Stacked /\ stack # <<>> /\ PoolTyped /\ gone' = gone /\ KillAll
  BY DEF PoolIInv, PoolTyped, Stacked, RegisterFails, Destroyed, Command, Runs
<1>1. /\ list' \in Seq(Entry) /\ Len(list') = Len(list) /\ ListedOnce' /\ Listed' = Listed
      /\ MayEnd /\ \A k \in Listed : ~Alive(k)'
      /\ drift' \in {"free", "all"} /\ (drift' # "all" => drift # "all")
      /\ UNCHANGED <<pipe, childnum, freechildnum, usr1Pending, late>>
      /\ Coming' = Coming /\ Told' = Told => KidsTrue'
  BY <1>0, KillAllDoes
<1>2. Top = stack[1] /\ 1 \in DOMAIN stack /\ Top \in Frames
  BY <1>0, TopFrame
<1>3. PICK f : /\ Replace(f)
               /\ \/ f = [Top EXCEPT !.do = "failing", !.kid = 0] /\ Top.do = "wait"
                  \/ f = Frame("dying") /\ Top.do = "parent"
  BY DEF RegisterFails, Destroyed, Command, Runs
<1>4. /\ f \in Frames /\ f.set \subseteq Top.set
      /\ (f.do = "failing" /\ Top.do = "wait") \/ (f.do = "dying" /\ Top.do = "parent")
  <2>1. CASE f = [Top EXCEPT !.do = "failing", !.kid = 0] /\ Top.do = "wait"
    BY <1>2, <2>1 DEF Frames, HandlerDoes
  <2>2. CASE f = Frame("dying") /\ Top.do = "parent"
    BY <1>2, <2>2, NewFrame DEF LoopDoes
  <2> QED
    BY <1>3, <2>1, <2>2
<1>5. /\ FrameFits(f) /\ (InLoop(f) <=> InLoop(Top)) /\ ~Joins(f) /\ ~Joining(f) /\ ~Joining(Top)
      /\ ~Counting(f) /\ ~Counting(Top)
  BY <1>4 DEF FrameFits, InLoop, LoopDoes, CountDoes, Joins, Joining, Counting
<1>6. TopBecomes(f)
  BY <1>0, <1>3, <1>4, <1>5 DEF TopBecomes
<1>7. Stacked' /\ stack' # <<>> /\ Coming' = Coming /\ Told' = Told
  BY <1>4, <1>5, <1>6, TopChanges, TopKinds
<1>8. PoolTyped' /\ LoopBelow' /\ KidsTrue'
  BY <1>0, <1>1, <1>7 DEF PoolTyped, Stacked, Entry, MayEnd
<1>9. Awaited' /\ FoundTrue'
  <2>1. \A j \in Kids : /\ child[j] # "none" => child'[j] # "none"
                        /\ child[j] \notin {"none", "forked"} => child'[j] \notin {"none", "forked"}
                        /\ child[j] \notin {"none", "forked"} /\ ~Alive(j) => ~Alive(j)'
    BY <1>1, Ends
  <2>2. \A i \in DOMAIN stack : i # 1 =>
          /\ Joins(stack[i]) => stack[i].kid \notin Listed'
          /\ stack[i].do \in {"told", "lost"} => stack[i].kid \in Listed'
          /\ stack[i].do = "lost" => pipe'[stack[i].kid] = <<>>
    BY <1>1, OthersStay
  <2>3. Top.do \notin {"listen", "blocked"} /\ f.do \notin {"told", "lost"}
    BY <1>4
  <2> QED
    BY <1>1, <1>4, <1>5, <1>6, <2>1, <2>2, <2>3, TopStep
<1>10. CountersTrue'
  BY <1>1, <1>5, <1>6, CountersKept
<1>11. EndTrue'
  BY <1>0, <1>1, <1>7 DEF PoolIInv, EndTrue
<1> QED
  BY <1>1, <1>8, <1>9, <1>10, <1>11 DEF PoolIInv

\* A restart begins with child_init, above the walk that goes on behind it.
LEMMA RestartKeeps ==
  ASSUME PoolIInv, Restart
  PROVE  PoolIInv' /\ usr1Pending' = usr1Pending
<1>0. /\ Stacked /\ stack # <<>> /\ PoolTyped /\ gone' = gone /\ KillAll /\ Top.do = "parent"
  BY DEF PoolIInv, PoolTyped, Stacked, Restart, Command, Runs
<1>1. /\ list' \in Seq(Entry) /\ Len(list') = Len(list) /\ ListedOnce' /\ Listed' = Listed
      /\ MayEnd /\ \A k \in Listed : ~Alive(k)'
      /\ drift' \in {"free", "all"} /\ (drift' # "all" => drift # "all")
      /\ UNCHANGED <<pipe, childnum, freechildnum, usr1Pending, late>>
      /\ Coming' = Coming /\ Told' = Told => KidsTrue'
  BY <1>0, KillAllDoes
<1>2. /\ Top = stack[1] /\ 1 \in DOMAIN stack /\ Top \in Frames /\ InLoop(Top) /\ Plain(Top)
      /\ DOMAIN stack = {1} /\ Tail(stack) = <<>>
  BY <1>0, TopFrame, Alone DEF InLoop, LoopDoes, Plain
<1>3. PICK S \in SUBSET (Kids \cup {Manager}) : S = Top.set
  BY <1>2 DEF Frames
<1>4. PICK f, g : f = InitFrame(Asked, "none") /\ g = [Frame("walk") EXCEPT !.set = S]
  OBVIOUS
<1>5. /\ f \in Frames /\ f.set = {} /\ Plain(f) /\ FrameFits(f) /\ ~InLoop(f)
      /\ g \in Frames /\ g.do = "walk" /\ g.set = S /\ FrameFits(g) /\ InLoop(g) /\ Plain(g)
  <2>1. Asked \in Nat
    BY ProcPoolAssumption
  <2>2. f \in Frames /\ f.set = {} /\ Plain(f) /\ FrameFits(f) /\ ~InLoop(f)
    BY <1>4, <2>1, InitFrameFits
  <2>3. g \in Frames /\ g.do = "walk" /\ g.set = S /\ FrameFits(g) /\ InLoop(g) /\ Plain(g)
    BY <1>4, SetFrame
  <2> QED
    BY <2>2, <2>3
<1>6. stack' = <<f, g>>
  <2>1. stack' = <<f, g>> \o <<>>
    BY <1>2, <1>3, <1>4 DEF Restart, Walking
  <2> QED
    BY <2>1
<1>7. /\ stack' \in Seq(Frames) /\ stack' # <<>> /\ DOMAIN stack' = {1, 2} /\ Len(stack') = 2
      /\ stack'[1] = f /\ stack'[2] = g
  BY <1>5, <1>6
<1>8. LoopBelow'
  BY <1>5, <1>7 DEF LoopBelow
<1>9. /\ \A i \in DOMAIN stack' : /\ ~Joins(stack'[i]) /\ ~Joining(stack'[i]) /\ ~Counting(stack'[i])
                                  /\ stack'[i].do \notin {"told", "lost", "dying", "failing"}
      /\ \A i \in DOMAIN stack : /\ ~Joins(stack[i]) /\ ~Joining(stack[i]) /\ ~Counting(stack[i])
                                 /\ stack[i].do \notin {"told", "lost", "dying", "failing"}
  BY <1>2, <1>5, <1>7, Kinds
<1>10. Coming' = Coming /\ Told' = Told /\ ~Storing /\ ~Storing' /\ ~Ending'
  BY <1>9 DEF Coming, Told, Storing, Ending
<1>11. PoolTyped' /\ KidsTrue'
  BY <1>0, <1>1, <1>7, <1>10 DEF PoolTyped, Entry, MayEnd
<1>12. Awaited'
  BY <1>9 DEF Awaited
<1>13. FoundTrue'
  <2>1. Found(Top)
    BY <1>2 DEF PoolIInv, FoundTrue
  <2>2. ASSUME NEW k \in S \cap Kids
        PROVE  child'[k] \notin {"none", "forked"} /\ (pipe'[k] # <<>> \/ ~Alive(k)')
    BY <1>0, <1>1, <1>3, <2>1, <2>2, Ends DEF Found
  <2>3. ASSUME NEW h, h \in {f, g} PROVE Found(h)'
    BY <1>5, <1>9, <2>2, <2>3, Kinds DEF Found
  <2> QED
    BY <1>7, <2>3 DEF FoundTrue, Found
<1>14. CountersTrue'
  BY <1>0, <1>1, <1>9, <1>10 DEF PoolIInv, CountersTrue
<1>15. EndTrue'
  BY <1>0, <1>7, <1>10 DEF PoolIInv, EndTrue
<1> QED
  BY <1>1, <1>8, <1>11, <1>12, <1>13, <1>14, <1>15 DEF PoolIInv

-----------------------------------------------------------------------------
(***************************************************************************)
(* What the loop reads of the children.                                    *)
(***************************************************************************)
LEMMA ReadChildKeeps ==
  ASSUME PoolIInv, ReadChild
  PROVE  PoolIInv' /\ usr1Pending' = usr1Pending
<1>0. /\ Stacked /\ stack # <<>> /\ Top.do = "walk" /\ PoolTyped
      /\ UNCHANGED <<gone, child, list, childnum, freechildnum, usr1Pending, drift, late>>
  BY DEF PoolIInv, PoolTyped, Stacked, ReadChild, Runs, poolVars, signalVars, historyVars
<1>1. /\ Top = stack[1] /\ 1 \in DOMAIN stack /\ Top \in Frames /\ FrameFits(Top) /\ InLoop(Top)
      /\ Top.all = 0 /\ Top.free = 0 /\ DOMAIN stack = {1}
  BY <1>0, TopFrame, Alone DEF InLoop, LoopDoes, FrameFits
<1>2. PICK i \in DOMAIN list : LET k == list[i].kid
                                   read == [Top EXCEPT !.set = @ \ {k}, !.kid = k]
                               IN  /\ Foremost(i)
                                   /\ \/ /\ pipe[k] # <<>>
                                         /\ pipe' = [pipe EXCEPT ![k] = Tail(@)]
                                         /\ Replace([read EXCEPT !.do = "told", !.byte = Head(pipe[k])])
                                      \/ pipe[k] = <<>> /\ Replace([read EXCEPT !.do = "lost"]) /\ UNCHANGED pipe
  BY DEF ReadChild
<1>3. PICK k \in Kids, s \in Statuses : k = list[i].kid /\ s = list[i].status
  BY <1>0, Entries
<1>4. /\ k \in Listed /\ k \in Top.set /\ Known(k, s) /\ Found(Top)
      /\ \A j \in DOMAIN list : list[j].kid = k => j = i
  BY <1>0, <1>1, <1>2, <1>3 DEF PoolIInv, KidsTrue, FoundTrue, Foremost, Listed, ListedOnce
<1>5. Listed' = Listed /\ Free' = Free /\ ListedOnce'
  BY <1>0, SameList DEF PoolIInv
<1>6. Told = {}
  BY <1>0, <1>1 DEF Told
<1>7. \A j : Alive(j)' = Alive(j)
  BY <1>0 DEF Alive
<1>8. ASSUME NEW f, TopBecomes(f), f.kid = k, f.set \subseteq Top.set \ {k},
             pipe' \in [Kids -> Bytes], \A j \in Kids : j # k => pipe'[j] = pipe[j],
             f.do = "told" \/ (f.do = "lost" /\ ~Alive(k) /\ pipe'[k] = <<>>),
             KidsTrue'
      PROVE  PoolIInv'
  <2>1. Stacked' /\ stack' # <<>> /\ stack'[1] = f /\ DOMAIN stack' = {1}
    BY <1>1, <1>8, TopChanges
  <2>2. PoolTyped' /\ LoopBelow'
    BY <1>0, <1>8, <2>1 DEF PoolTyped, Stacked
  <2>3. ~Joins(f) /\ ~Counting(f) /\ ~Counting(Top) /\ Top.do \notin {"listen", "blocked", "dying", "failing"}
    BY <1>0, <1>8 DEF Joins, Joining, CountDoes, Counting
  <2>4. Awaited' /\ FoundTrue'
    <3>1. \A j \in Kids : /\ child[j] # "none" => child'[j] # "none"
                          /\ child[j] \notin {"none", "forked"} => child'[j] \notin {"none", "forked"}
                          /\ child[j] \notin {"none", "forked"} /\ ~Alive(j) => ~Alive(j)'
      BY <1>0, <1>7
    <3>2. \A j \in Kids : (\E n \in DOMAIN stack' : j \in stack'[n].set) /\ pipe[j] # <<>> => pipe'[j] # <<>>
      BY <1>8, <2>1
    <3>3. f.do = "lost" => f.kid \in Kids /\ ~Alive(f.kid)' /\ pipe'[f.kid] = <<>>
      BY <1>7, <1>8
    <3>4. f.kid \in Listed' /\ f.set \subseteq Top.set
      BY <1>4, <1>5, <1>8
    <3> QED
      BY <1>1, <1>8, <2>3, <3>1, <3>2, <3>3, <3>4, TopStep
  <2>5. CountersTrue'
    BY <1>0, <1>5, <1>8, <2>3, CountersKept
  <2>6. EndTrue'
    <3>1. Ending' <=> Ending
      BY <1>8, <2>3, TopKinds
    <3> QED
      BY <1>0, <1>5, <1>7, <2>1, <3>1 DEF PoolIInv, EndTrue
  <2> QED
    BY <1>5, <1>8, <2>2, <2>4, <2>5, <2>6 DEF PoolIInv
<1>9. CASE pipe[k] # <<>>
  <2>1. PICK b \in {READY, WORK} : pipe[k] = <<b>>
    BY <1>0, <1>9 DEF PoolTyped, Bytes
  <2>2. Head(pipe[k]) = b /\ Tail(pipe[k]) = <<>>
    BY <2>1, Letters
  <2>3. /\ pipe' \in [Kids -> Bytes] /\ pipe'[k] = <<>> /\ \A j \in Kids : j # k => pipe'[j] = pipe[j]
    BY <1>0, <1>2, <1>3, <1>9, <2>2 DEF PoolTyped, Bytes
  <2>4. PICK f : Replace(f) /\ f = [[Top EXCEPT !.set = @ \ {k}, !.kid = k] EXCEPT !.do = "told", !.byte = b]
    BY <1>2, <1>3, <1>9, <2>2
  <2>5. /\ f \in Frames /\ f.do = "told" /\ f.kid = k /\ f.byte = b /\ f.set = Top.set \ {k}
        /\ f.all = 0 /\ f.free = 0
    BY <1>1, <2>4 DEF Frames, LoopDoes
  <2>6. FrameFits(f) /\ InLoop(f)
    BY <2>5, Letters DEF FrameFits, InLoop, LoopDoes, CountDoes, Joining
  <2>7. TopBecomes(f)
    BY <1>0, <1>1, <2>4, <2>5, <2>6 DEF TopBecomes
  <2>8. Told' = {f} /\ Coming' = Coming
    BY <1>0, <1>1, <2>5, <2>7, TopKinds DEF Joining, CountDoes
  <2>9. KidsTrue'
    <3>1. \A j \in Kids : j # k => (Unlisted(j) => Unlisted(j)') /\ (Joined(j) => Joined(j)')
      BY <1>0, <2>3 DEF Unlisted, Joined
    <3>2. ASSUME NEW j \in Kids, j # k, NEW r, Known(j, r) PROVE Known(j, r)'
      BY <1>0, <1>6, <2>3, <2>5, <2>8, <3>2 DEF Known, LastWord
    <3>3. Known(k, s)'
      BY <1>0, <1>4, <1>6, <2>1, <2>3, <2>5, <2>8, Letters DEF Known, LastWord
    <3>4. ASSUME NEW j \in DOMAIN list PROVE Known(list[j].kid, list[j].status)'
      <4>1. PICK x \in Kids, r \in Statuses : x = list[j].kid /\ r = list[j].status
        BY <1>0, Entries
      <4>2. Known(x, r)
        BY <1>0, <4>1 DEF PoolIInv, KidsTrue
      <4>3. Known(x, r)'
        BY <1>3, <1>4, <3>2, <3>3, <4>1, <4>2
      <4> QED
        BY <1>0, <4>1, <4>3
    <3> QED
      BY <1>0, <1>4, <1>5, <2>8, <3>1, <3>4 DEF PoolIInv, KidsTrue
  <2> QED
    BY <1>0, <1>8, <2>3, <2>5, <2>7, <2>9
<1>10. CASE pipe[k] = <<>>
  <2>1. pipe' = pipe
    BY <1>2, <1>3, <1>10
  <2>2. PICK f : Replace(f) /\ f = [[Top EXCEPT !.set = @ \ {k}, !.kid = k] EXCEPT !.do = "lost"]
    BY <1>2, <1>3, <1>10
  <2>3. f \in Frames /\ f.do = "lost" /\ f.kid = k /\ f.set = Top.set \ {k} /\ f.all = 0 /\ f.free = 0
    BY <1>1, <2>2 DEF Frames, LoopDoes
  <2>4. FrameFits(f) /\ InLoop(f)
    BY <2>3 DEF FrameFits, InLoop, LoopDoes, CountDoes, Joining
  <2>5. TopBecomes(f)
    BY <1>0, <1>1, <2>2, <2>3, <2>4 DEF TopBecomes
  <2>6. Told' = Told /\ Coming' = Coming
    BY <1>0, <1>1, <2>3, <2>5, TopKinds DEF Joining, CountDoes
  <2>7. KidsTrue'
    <3>1. MayEnd
      BY <1>0, NoneEnds DEF PoolTyped
    <3> QED
      BY <1>0, <2>1, <2>6, <3>1, KidsKept DEF PoolIInv
  <2>8. ~Alive(k)
    BY <1>0, <1>4, <1>10 DEF Found
  <2> QED
    BY <1>0, <1>8, <1>10, <2>1, <2>3, <2>5, <2>7, <2>8 DEF PoolTyped
<1> QED
  BY <1>0, <1>9, <1>10

LEMMA ChildMessageKeeps ==
  ASSUME PoolIInv, ChildMessage
  PROVE  PoolIInv' /\ usr1Pending' = usr1Pending
<1>0. /\ Stacked /\ stack # <<>> /\ Top.do = "told" /\ PoolTyped /\ ListedOnce
      /\ UNCHANGED <<gone, child, pipe, childnum, freechildnum, usr1Pending, drift, late>>
  BY DEF PoolIInv, PoolTyped, Stacked, ChildMessage, Runs, kidVars, signalVars, historyVars
<1>1. /\ Top = stack[1] /\ 1 \in DOMAIN stack /\ Top \in Frames /\ FrameFits(Top) /\ InLoop(Top)
      /\ Top.all = 0 /\ DOMAIN stack = {1} /\ Top.kid \in Listed /\ Top.byte \in {READY, WORK}
  <2>1. /\ Top = stack[1] /\ 1 \in DOMAIN stack /\ Top \in Frames /\ FrameFits(Top) /\ InLoop(Top)
        /\ Top.all = 0 /\ DOMAIN stack = {1}
    BY <1>0, TopFrame, Alone DEF InLoop, LoopDoes, FrameFits
  <2>2. Top.kid \in Listed
    BY <1>0, <2>1, OthersStay
  <2>3. Top.byte \in {"none", READY, WORK} /\ Top.byte # "none"
    BY <1>0, <2>1 DEF Frames, FrameFits
  <2> QED
    BY <2>1, <2>2, <2>3
<1>2. PICK k \in Listed, b \in {READY, WORK} : k = Top.kid /\ b = Top.byte
  BY <1>1
<1>3. list' = [i \in DOMAIN list |-> IF list[i].kid = k THEN [list[i] EXCEPT !.status = b] ELSE list[i]]
  BY <1>2 DEF ChildMessage
<1>4. /\ list' \in Seq(Entry) /\ Len(list') = Len(list) /\ ListedOnce' /\ Listed' = Listed
      /\ Free' = IF b = READY THEN Free \cup {k} ELSE Free \ {k}
      /\ DOMAIN list' = DOMAIN list
      /\ \A i \in DOMAIN list : /\ list'[i].kid = list[i].kid
                                /\ list'[i].status = IF list[i].kid = k THEN b ELSE list[i].status
  BY <1>0, <1>3, Updated
<1>5. Listed \subseteq Kids /\ Free \subseteq Listed
  BY <1>0, Entries
<1>6. PICK i \in DOMAIN list, s \in Statuses : list[i].kid = k /\ s = list[i].status
  BY <1>0, <1>2, Entries DEF Listed
<1>7. Known(k, s) /\ Told = {Top}
  BY <1>0, <1>1, <1>6 DEF PoolIInv, KidsTrue, Told
<1>8. LastWord(k, b) /\ (drift = "none" => b # s /\ s # DEAD)
  BY <1>2, <1>7 DEF Known
<1>9. PICK n \in {-1, 1} : n = IF b = WORK THEN -1 ELSE 1
  OBVIOUS
<1>10. PICK f : Replace(f) /\ f = [Top EXCEPT !.do = "readfree", !.free = n]
  BY <1>2, <1>9 DEF ChildMessage
<1>11. /\ f \in Frames /\ f.do = "readfree" /\ f.kid = k /\ f.set = Top.set /\ f.all = 0 /\ f.free = n
  BY <1>1, <1>2, <1>9, <1>10 DEF Frames, CountDoes, Signs
<1>12. /\ FrameFits(f) /\ InLoop(f) /\ Counting(f) /\ ~Counting(Top) /\ ~Joining(f) /\ ~Joining(Top)
       /\ ~Joins(f)
  BY <1>0, <1>1, <1>9, <1>11 DEF FrameFits, InLoop, LoopDoes, CountDoes, Joining, Joins, Counting
<1>13. TopBecomes(f)
  BY <1>0, <1>1, <1>10, <1>11, <1>12 DEF TopBecomes
<1>14. Stacked' /\ stack' # <<>> /\ Told' = {} /\ Coming' = Coming /\ (Ending' <=> Ending) /\ ~Storing
  <2>1. ~Storing
    BY <1>1, <1>12 DEF Storing
  <2> QED
    BY <1>0, <1>1, <1>11, <1>12, <1>13, <2>1, TopChanges, TopKinds
<1>15. PoolTyped' /\ LoopBelow'
  BY <1>0, <1>4, <1>14 DEF PoolTyped, Stacked, Entry
<1>16. KidsTrue'
  <2>1. \A j \in Kids : (Unlisted(j) => Unlisted(j)') /\ (Joined(j) => Joined(j)')
    BY <1>0 DEF Unlisted, Joined
  <2>2. ASSUME NEW j \in Kids, j # k, NEW r, Known(j, r) PROVE Known(j, r)'
    BY <1>0, <1>2, <1>7, <1>14, <2>2 DEF Known, LastWord
  <2>3. Known(k, b)'
    BY <1>0, <1>7, <1>8, <1>14, Letters DEF Known, LastWord
  <2>4. ASSUME NEW j \in DOMAIN list PROVE Known(list[j].kid, list[j].status)'
    <3>1. PICK x \in Kids, r \in Statuses : x = list[j].kid /\ r = list[j].status
      BY <1>0, Entries
    <3>2. Known(x, r)
      BY <1>0, <3>1 DEF PoolIInv, KidsTrue
    <3>3. CASE x = k
      <4>1. list'[j].kid = k /\ list'[j].status = b
        BY <1>4, <3>1, <3>3
      <4> QED
        BY <2>3, <4>1
    <3>4. CASE x # k
      <4>1. list'[j].kid = x /\ list'[j].status = r
        BY <1>4, <3>1, <3>4
      <4>2. Known(x, r)'
        BY <2>2, <3>2, <3>4
      <4> QED
        BY <4>1, <4>2
    <3> QED
      BY <3>3, <3>4
  <2> QED
    BY <1>0, <1>4, <1>14, <2>1, <2>4 DEF PoolIInv, KidsTrue
<1>17. Awaited' /\ FoundTrue'
  <2>1. \A j \in Kids : /\ child[j] # "none" => child'[j] # "none"
                        /\ child[j] \notin {"none", "forked"} => child'[j] \notin {"none", "forked"}
                        /\ child[j] \notin {"none", "forked"} /\ ~Alive(j) => ~Alive(j)'
    BY <1>0 DEF Alive
  <2>2. Top.do \notin {"listen", "blocked"} /\ f.do \notin {"told", "lost"}
    BY <1>0, <1>11
  <2> QED
    BY <1>0, <1>1, <1>11, <1>12, <1>13, <2>1, <2>2, TopStep
<1>18. CountersTrue'
  <2>1. IsFiniteSet(Free) /\ Cardinality(Free) \in Nat
    BY <1>5, ProcPoolAssumption, FS_Subset, FS_CardinalityType
  <2>2. drift = "none" => Cardinality(Free') = Cardinality(Free) + n
    <3> SUFFICES ASSUME drift = "none" PROVE Cardinality(Free') = Cardinality(Free) + n
      OBVIOUS
    <3>1. CASE b = READY
      <4>1. \A j \in DOMAIN list : list[j].kid = k => list[j].status # READY
        BY <1>0, <1>6, <1>8, <3>1 DEF ListedOnce
      <4>2. k \notin Free
        BY <4>1 DEF Free
      <4>3. n = 1
        BY <1>9, <3>1, Letters
      <4> QED
        BY <1>4, <2>1, <3>1, <4>2, <4>3, FS_AddElement
    <3>2. CASE b = WORK
      <4>1. s = READY
        BY <1>8, <3>2 DEF Statuses
      <4>2. k \in Free
        BY <1>6, <4>1 DEF Free
      <4>3. n = -1 /\ b # READY
        BY <1>9, <3>2, Letters
      <4>4. Cardinality(Free \ {k}) = Cardinality(Free) - 1
        BY <2>1, <4>2, FS_RemoveElement
      <4> QED
        BY <1>4, <2>1, <4>3, <4>4
    <3> QED
      BY <3>1, <3>2
  <2>3. /\ Len(list) = Cardinality(Listed)
        /\ drift # "all" => childnum = Len(list)
        /\ drift = "none" => freechildnum = Cardinality(Free)
    BY <1>0, <1>14 DEF PoolIInv, CountersTrue
  <2>4. ToAll(f) = 0 /\ ToFree(f) = n /\ ToList(f) = 0 /\ f.do \notin {"writeall", "writefree"}
    BY <1>11, <1>12 DEF ToAll, ToFree, ToList, CountDoes
  <2>5. drift # "all" => childnum' + ToAll(f) = Len(list') + ToList(f)
    BY <1>0, <1>4, <2>3, <2>4 DEF PoolTyped
  <2>6. drift = "none" => freechildnum' + ToFree(f) = Cardinality(Free') + ToList(f)
    BY <1>0, <2>1, <2>2, <2>3, <2>4 DEF PoolTyped
  <2> QED
    BY <1>0, <1>4, <1>12, <1>13, <1>14, <2>3, <2>4, <2>5, <2>6, CountersTop
<1>19. EndTrue'
  <2>1. \A j : Alive(j)' = Alive(j)
    BY <1>0 DEF Alive
  <2> QED
    BY <1>0, <1>4, <1>14, <2>1 DEF PoolIInv, EndTrue
<1> QED
  BY <1>0, <1>4, <1>15, <1>16, <1>17, <1>18, <1>19 DEF PoolIInv

LEMMA ChildDeadKeeps ==
  ASSUME PoolIInv, ChildDead
  PROVE  PoolIInv' /\ usr1Pending' = usr1Pending
<1>0. PICK i \in DOMAIN list, read \in BOOLEAN :
        /\ Unlist(i, IF read THEN -1 ELSE 0)
        /\ drift' = IF read = (list[i].status = READY) THEN drift ELSE Worse("free")
  BY DEF ChildDead
<1>1. /\ Stacked /\ stack # <<>> /\ Top.do = "lost" /\ PoolTyped /\ ListedOnce /\ list[i].kid = Top.kid
      /\ list' = RemoveAt(list, i)
      /\ UNCHANGED <<gone, child, pipe, childnum, freechildnum, usr1Pending, late>>
  BY <1>0 DEF PoolIInv, PoolTyped, Stacked, Unlist, Runs, kidVars, signalVars
<1>2. /\ Top = stack[1] /\ 1 \in DOMAIN stack /\ Top \in Frames /\ FrameFits(Top) /\ InLoop(Top)
      /\ DOMAIN stack = {1}
  BY <1>1, TopFrame, Alone DEF InLoop, LoopDoes
<1>3. PICK k \in Kids, s \in Statuses : k = list[i].kid /\ s = list[i].status
  BY <1>1, Entries
<1>4. /\ k = Top.kid /\ Known(k, s) /\ ~Alive(k) /\ pipe[k] = <<>> /\ k \in Listed
  BY <1>1, <1>2, <1>3 DEF PoolIInv, KidsTrue, FoundTrue, Found, Listed
<1>5. /\ list' \in Seq(Entry) /\ Len(list') = Len(list) - 1 /\ ListedOnce'
      /\ Listed' = Listed \ {k} /\ Free' = Free \ {k}
      /\ \A n \in DOMAIN list' : \E j \in DOMAIN list : list'[n] = list[j]
  BY <1>1, <1>3, Removed
<1>6. Listed \subseteq Kids /\ Free \subseteq Listed
  BY <1>1, Entries
<1>7. PICK m \in {-1, 0} : m = IF read THEN -1 ELSE 0
  OBVIOUS
<1>8. PICK f : Replace(f) /\ f = [Top EXCEPT !.do = "readall", !.all = -1, !.free = m]
  BY <1>0, <1>7 DEF Unlist
<1>9. /\ f \in Frames /\ f.do = "readall" /\ f.set = Top.set /\ f.all = -1 /\ f.free = m
  BY <1>2, <1>7, <1>8 DEF Frames, CountDoes, Signs
<1>10. /\ FrameFits(f) /\ InLoop(f) /\ Counting(f) /\ ~Counting(Top) /\ ~Joining(f) /\ ~Joining(Top)
       /\ ~Joins(f)
  BY <1>1, <1>9 DEF FrameFits, InLoop, LoopDoes, CountDoes, Joining, Joins, Counting
<1>11. TopBecomes(f)
  BY <1>1, <1>2, <1>8, <1>9, <1>10 DEF TopBecomes
<1>12. Stacked' /\ stack' # <<>> /\ Told = {} /\ Told' = {} /\ Coming' = Coming /\ (Ending' <=> Ending) /\ ~Storing
  <2>1. ~Storing
    BY <1>2, <1>10 DEF Storing
  <2> QED
    BY <1>1, <1>2, <1>9, <1>10, <1>11, <2>1, TopChanges, TopKinds
<1>13. /\ drift' \in {"none", "free", "all"} /\ (drift' # "all" => drift # "all")
       /\ drift' = "none" => drift = "none" /\ read = (s = READY)
  BY <1>0, <1>1, <1>3 DEF Worse, PoolTyped
<1>14. PoolTyped' /\ LoopBelow'
  BY <1>1, <1>5, <1>12, <1>13 DEF PoolTyped, Stacked, Entry
<1>15. KidsTrue'
  <2>1. \A j \in Kids : (Unlisted(j) => Unlisted(j)') /\ (Joined(j) => Joined(j)')
    BY <1>1 DEF Unlisted, Joined
  <2>2. ASSUME NEW j, NEW r, Known(j, r) PROVE Known(j, r)'
    BY <1>1, <1>12, <1>13, <2>2 DEF Known, LastWord
  <2>3. Unlisted(k)'
    BY <1>1, <1>4, Letters DEF Unlisted, Known, Alive
  <2>4. ASSUME NEW n \in DOMAIN list' PROVE Known(list[n].kid, list[n].status)'
    <3>1. PICK j \in DOMAIN list : list'[n] = list[j]
      BY <1>5
    <3>2. PICK x, r : x = list[j].kid /\ r = list[j].status
      OBVIOUS
    <3>3. Known(x, r)
      BY <1>1, <3>2 DEF PoolIInv, KidsTrue
    <3>4. Known(x, r)' /\ x = list'[n].kid /\ r = list'[n].status
      BY <2>2, <3>1, <3>2, <3>3
    <3> QED
      BY <3>4
  <2>5. k \notin Coming
    BY <1>2, <1>10 DEF Coming
  <2> QED
    BY <1>1, <1>5, <1>12, <2>1, <2>3, <2>4, <2>5 DEF PoolIInv, KidsTrue
<1>16. Awaited' /\ FoundTrue'
  <2>1. \A j \in Kids : /\ child[j] # "none" => child'[j] # "none"
                        /\ child[j] \notin {"none", "forked"} => child'[j] \notin {"none", "forked"}
                        /\ child[j] \notin {"none", "forked"} /\ ~Alive(j) => ~Alive(j)'
    BY <1>1 DEF Alive
  <2>2. Top.do \notin {"listen", "blocked"} /\ f.do \notin {"told", "lost"}
    BY <1>1, <1>9
  <2> QED
    BY <1>1, <1>2, <1>9, <1>10, <1>11, <2>1, <2>2, TopStep
<1>17. CountersTrue'
  <2>1. IsFiniteSet(Free) /\ Cardinality(Free) \in Nat /\ IsFiniteSet(Listed)
    BY <1>6, ProcPoolAssumption, FS_Subset, FS_CardinalityType
  <2>2. Cardinality(Listed') = Cardinality(Listed) - 1
    BY <1>4, <1>5, <2>1, FS_RemoveElement
  <2>3. drift' = "none" => Cardinality(Free') = Cardinality(Free) + m
    <3> SUFFICES ASSUME drift' = "none" PROVE Cardinality(Free') = Cardinality(Free) + m
      OBVIOUS
    <3>1. CASE s = READY
      <4>1. k \in Free
        BY <1>3, <3>1 DEF Free
      <4>2. m = -1
        BY <1>7, <1>13, <3>1
      <4>3. Cardinality(Free \ {k}) = Cardinality(Free) - 1
        BY <2>1, <4>1, FS_RemoveElement
      <4> QED
        BY <1>5, <2>1, <4>2, <4>3
    <3>2. CASE s # READY
      <4>1. \A j \in DOMAIN list : list[j].kid = k => list[j].status # READY
        BY <1>1, <1>3, <3>2 DEF ListedOnce
      <4>2. k \notin Free
        BY <4>1 DEF Free
      <4>3. m = 0
        BY <1>7, <1>13, <3>2
      <4>4. Free' = Free
        BY <1>5, <4>2
      <4> QED
        BY <2>1, <4>3, <4>4
    <3> QED
      BY <3>1, <3>2
  <2>4. /\ Len(list) = Cardinality(Listed)
        /\ drift # "all" => childnum = Len(list)
        /\ drift = "none" => freechildnum = Cardinality(Free)
    BY <1>1, <1>12 DEF PoolIInv, CountersTrue
  <2>5. ToAll(f) = -1 /\ ToFree(f) = m /\ ToList(f) = 0 /\ f.do \notin {"writeall", "writefree"}
    BY <1>9, <1>10 DEF ToAll, ToFree, ToList, CountDoes
  <2>6. drift' # "all" => childnum' + ToAll(f) = Len(list') + ToList(f)
    BY <1>1, <1>5, <1>13, <2>4, <2>5 DEF PoolTyped
  <2>7. drift' = "none" => freechildnum' + ToFree(f) = Cardinality(Free') + ToList(f)
    BY <1>1, <1>13, <2>1, <2>3, <2>4, <2>5 DEF PoolTyped
  <2>8. Len(list') = Cardinality(Listed')
    BY <1>5, <2>2, <2>4
  <2> QED
    BY <1>10, <1>11, <1>12, <1>13, <2>5, <2>6, <2>7, <2>8, CountersTop
<1>18. EndTrue'
  <2>1. \A j : Alive(j)' = Alive(j)
    BY <1>1 DEF Alive
  <2> QED
    BY <1>1, <1>5, <1>12, <2>1 DEF PoolIInv, EndTrue
<1> QED
  BY <1>1, <1>5, <1>14, <1>15, <1>16, <1>17, <1>18 DEF PoolIInv

-----------------------------------------------------------------------------
(***************************************************************************)
(* The theorems.                                                           *)
(***************************************************************************)
\* PoolIInv holds when the manager begins.
THEOREM PoolInitially == Init => PoolIInv
<1> SUFFICES ASSUME Init PROVE PoolIInv
  OBVIOUS
<1>1. PICK f, g : f = InitFrame(Asked, "none") /\ g = Frame("register")
  OBVIOUS
<1>2. /\ f \in Frames /\ f.set = {} /\ Plain(f) /\ FrameFits(f) /\ ~InLoop(f)
      /\ g \in Frames /\ g.set = {} /\ Plain(g) /\ FrameFits(g) /\ InLoop(g)
  <2>1. Asked \in Nat
    BY ProcPoolAssumption
  <2>2. f \in Frames /\ f.set = {} /\ Plain(f) /\ FrameFits(f) /\ ~InLoop(f)
    BY <1>1, <2>1, InitFrameFits
  <2>3. g \in Frames /\ g.do = "register" /\ g.set = {}
    BY <1>1, NewFrame DEF LoopDoes
  <2>4. Plain(g) /\ FrameFits(g) /\ InLoop(g)
    BY <2>3 DEF Plain, FrameFits, InLoop, LoopDoes, Joining, CountDoes
  <2> QED
    BY <2>2, <2>3, <2>4
<1>3. stack = <<f, g>>
  BY <1>1 DEF Init
<1>4. stack \in Seq(Frames) /\ Len(stack) = 2 /\ DOMAIN stack = {1, 2} /\ stack[1] = f /\ stack[2] = g
      /\ stack # <<>>
  BY <1>2, <1>3
<1>5. /\ list = <<>> /\ DOMAIN list = {} /\ Len(list) = 0 /\ Listed = {} /\ Free = {} /\ ListedOnce
      /\ list \in Seq([kid : Kids, status : Statuses])
  <2>1. list = <<>>
    BY DEF Init
  <2>2. DOMAIN list = {} /\ Len(list) = 0 /\ list \in Seq([kid : Kids, status : Statuses])
    BY <2>1
  <2> QED
    BY <2>1, <2>2 DEF Listed, Free, ListedOnce
<1>6. PoolTyped
  BY <1>4, <1>5 DEF Init, PoolTyped, Lives, Bytes
<1>7. LoopBelow
  BY <1>2, <1>4 DEF LoopBelow
<1>8. \A i \in DOMAIN stack : /\ ~Joins(stack[i]) /\ ~Joining(stack[i]) /\ ~Counting(stack[i])
                              /\ stack[i].do \notin {"told", "lost", "dying", "failing"} /\ stack[i].set = {}
  BY <1>2, <1>4, Kinds
<1>9. KidsTrue
  <2>1. Coming = {}
    BY <1>8 DEF Coming
  <2> QED
    BY <1>5, <2>1, Letters DEF Init, KidsTrue, Unlisted
<1>10. Awaited /\ FoundTrue
  BY <1>8 DEF Awaited, FoundTrue, Found
<1>11. CountersTrue
  <2>1. Cardinality({}) = 0
    BY FS_EmptySet
  <2> QED
    BY <1>5, <1>8, <2>1 DEF CountersTrue, Init
<1>12. EndTrue
  BY <1>4, <1>5 DEF Init, EndTrue
<1> QED
  BY <1>5, <1>6, <1>7, <1>9, <1>10, <1>11, <1>12 DEF PoolIInv

LEMMA NothingChanges ==
  ASSUME PoolIInv, UNCHANGED vars
  PROVE  PoolIInv'
<1>1. UNCHANGED <<stack, gone, child, pipe, list, childnum, freechildnum, usr1Pending, drift, late>>
  BY DEF vars
<1>2. Stacked
  BY DEF PoolIInv, PoolTyped, Stacked
<1>3. CASE stack # <<>>
  <2>1. Stacked' /\ stack' # <<>> /\ Carries(0, 0)
    BY <1>1, <1>2, <1>3, Stays
  <2>2. MayEnd /\ usr1Pending' \in Int
    BY <1>1, NoneEnds DEF PoolIInv, PoolTyped
  <2> QED
    BY <1>1, <1>3, <2>1, <2>2, HandlersOnly
<1>4. CASE stack = <<>>
  <2>1. Stacked' /\ DOMAIN stack' = {}
    BY <1>1, <1>4, NoFrame
  <2>2. PoolTyped' /\ LoopBelow' /\ ListedOnce' /\ Listed' = Listed
    BY <1>1, <2>1, SameList DEF PoolIInv, PoolTyped, Stacked
  <2>3. Awaited' /\ FoundTrue' /\ CountersTrue'
    BY <1>1, <1>4, <2>1, <2>2 DEF PoolIInv, Awaited, FoundTrue, CountersTrue
  <2>4. EndTrue'
    <3>1. \A j : Alive(j)' = Alive(j)
      BY <1>1 DEF Alive
    <3>2. ~Ending'
      BY <2>1 DEF Ending
    <3> QED
      BY <1>1, <2>2, <3>1, <3>2 DEF PoolIInv, EndTrue
  <2> QED
    BY <1>1, <1>4, <2>2, <2>3, <2>4 DEF PoolIInv
<1> QED
  BY <1>3, <1>4

\* PoolIInv is inductive.
THEOREM PoolSteps == PoolIInv /\ [Next]_vars => PoolIInv'
<1> SUFFICES ASSUME PoolIInv, [Next]_vars PROVE PoolIInv'
  OBVIOUS
<1>1. CASE ManagerStep
  BY <1>1, ForkKeeps, RegisteredKeeps, AddKeeps, EndingKeeps, LeaveKeeps, LoopKeeps, ReapKeeps, AverageKeeps,
     ReadKeeps, WriteKeeps, RestartKeeps, ReadChildKeeps, ChildMessageKeeps, ChildDeadKeeps DEF ManagerStep
<1>2. CASE Sigchld \/ Sigusr1 \/ Sigalrm
  BY <1>2, SignalsKeep
<1>3. ASSUME NEW k \in Kids, ChildStep(k) \/ Dies(k) PROVE PoolIInv'
  BY <1>3, ChildStepKeeps, OutsideKeeps
<1>4. CASE CreateFails
  BY <1>4, LeaveKeeps
<1>5. CASE procpool_stat \/ procpool_destroy \/ AskRestart \/ procpool_sizectrl
  BY <1>5, OutsideKeeps
<1>6. CASE UNCHANGED vars
  BY <1>6, NothingChanges
<1> QED
  BY <1>1, <1>2, <1>3, <1>4, <1>5, <1>6 DEF Next

\* The counters of the pool are those of its list while no handler is crossed, and a
\* manager that ends leaves none of its list behind, but for those registered meanwhile.
THEOREM ChildrenHold == Spec => []ChildrenSound
<1>1. Init => PoolIInv
  BY PoolInitially
<1>2. PoolIInv /\ [Next]_vars => PoolIInv'
  BY PoolSteps
<1>3. PoolIInv => ChildrenSound
  <2> SUFFICES ASSUME PoolIInv PROVE ChildrenSound
    OBVIOUS
  <2>1. TypeOK
    <3>1. /\ Listed \subseteq Kids
          /\ \A i \in DOMAIN list : list[i].status \in {READY, WORK, DEAD}
      BY Entries DEF PoolIInv, Statuses
    <3>2. \A i \in DOMAIN stack : stack[i].do \in {"fork", "wait"} => stack[i].todo >= 0
      <4> SUFFICES ASSUME NEW i \in DOMAIN stack, stack[i].do \in {"fork", "wait"}
                   PROVE  stack[i].todo >= 0
        OBVIOUS
      <4>1. stack[i] \in Frames
        <5>1. stack \in Seq(Frames)
          BY DEF PoolIInv, PoolTyped
        <5> HIDE DEF Frames
        <5> QED
          BY <5>1
      <4>2. stack[i].todo \in Int
        BY <4>1 DEF Frames
      <4>3. FrameFits(stack[i])
        BY DEF PoolIInv, LoopBelow
      <4> QED
        BY <4>2, <4>3 DEF FrameFits
    <3> QED
      BY <3>1, <3>2 DEF TypeOK, PoolIInv, CountersTrue, EndTrue
  <2>2. CountsTrue
    BY DEF PoolIInv, CountersTrue, CountsTrue
  <2>3. NoneLeftBehind
    BY DEF PoolIInv, EndTrue, NoneLeftBehind
  <2> QED
    BY <2>1, <2>2, <2>3 DEF ChildrenSound
<1> QED
  BY <1>1, <1>2, <1>3, PTL DEF Spec

\* A shrink kills children that are READY as far as the manager knows; one of them
\* that is busy has said so, and the manager has not read it or not stored it.
LEMMA ShrinkStep ==
  ASSUME PoolIInv, [Next]_vars, NEW k \in Kids,
         usr1Pending < 0, usr1Pending' = 0, child[k] = "busy", child'[k] = "zombie"
  PROVE  \/ WORK \in ToSet(pipe[k])
         \/ \E i \in DOMAIN stack : stack[i].do = "told" /\ stack[i].kid = k /\ stack[i].byte = WORK
<1>0. usr1Pending \in Int /\ usr1Pending # 0 /\ child \in [Kids -> Lives] /\ pipe \in [Kids -> Bytes]
  BY DEF PoolIInv, PoolTyped
<1>1. Sigusr1
  <2>1. ~Average /\ ~procpool_sizectrl /\ ~Dies(k)
    BY <1>0, AverageKeeps, OutsideKeeps
  <2>2. ~Sigalrm
    <3>1. ASSUME Sigalrm PROVE usr1Pending' = usr1Pending
      <4>1. (IF childnum < MINCHILDNUM THEN MINCHILDNUM - childnum
             ELSE IF childnum > MAXCHILDNUM THEN MAXCHILDNUM - childnum ELSE 0) \in Int
        BY ProcPoolAssumption DEF PoolIInv, PoolTyped
      <4> QED
        BY <1>0, <3>1, <4>1, QueueNumber DEF Sigalrm
    <3> QED
      BY <1>0, <3>1
  <2>3. ASSUME ManagerStep PROVE FALSE
    <3>1. ASSUME RegisterFails \/ Destroyed PROVE usr1Pending' = usr1Pending
      BY <3>1, EndingKeeps
    <3>2. ASSUME Restart PROVE usr1Pending' = usr1Pending
      BY <3>2, RestartKeeps
    <3>3. ASSUME Reap PROVE usr1Pending' = usr1Pending
      BY <3>3 DEF Reap
    <3> QED
      BY <1>0, <2>1, <2>3, <3>1, <3>2, <3>3, ForkKeeps, RegisteredKeeps, AddKeeps, LeaveKeeps, LoopKeeps,
         ReadKeeps, WriteKeeps, ReadChildKeeps, ChildMessageKeeps, ChildDeadKeeps DEF ManagerStep
  <2>4. ASSUME Next, ~Sigusr1 PROVE FALSE
    <3>1. ASSUME NEW j \in Kids, ChildStep(j) \/ Dies(j) PROVE FALSE
      BY <1>0, <3>1, ChildStepKeeps, OutsideKeeps
    <3>2. ~CreateFails
      BY <1>0, LeaveKeeps
    <3>3. ~Sigchld
      BY <1>0 DEF Sigchld
    <3>4. ~(procpool_stat \/ procpool_destroy \/ AskRestart)
      BY <1>0, OutsideKeeps
    <3> QED
      BY <2>1, <2>2, <2>3, <2>4, <3>1, <3>2, <3>3, <3>4 DEF Next
  <2>5. ~UNCHANGED vars
    BY <1>0 DEF vars
  <2> QED
    BY <2>4, <2>5
<1>2. Kill(FreeOnes(-usr1Pending))
  BY <1>0, <1>1 DEF Sigusr1
<1>3. k \in FreeOnes(-usr1Pending)
  BY <1>2 DEF Kill
<1>4. PICK i \in DOMAIN list : list[i].kid = k /\ list[i].status = READY
  BY <1>3 DEF FreeOnes
<1>5. Known(k, READY)
  <2>1. stack # <<>>
    BY <1>1 DEF Sigusr1
  <2> QED
    BY <1>4, <2>1 DEF PoolIInv, KidsTrue
<1>6. CASE pipe[k] = <<WORK>>
  <2>1. WORK \in ToSet(<<WORK>>)
    <3>1. 1 \in DOMAIN <<WORK>> /\ <<WORK>>[1] = WORK
      OBVIOUS
    <3> QED
      BY <3>1 DEF ToSet
  <2> QED
    BY <1>6, <2>1
<1>7. CASE pipe[k] = <<>>
  <2>1. PICK t \in Told : t.kid = k
    BY <1>5, <1>7 DEF Known
  <2>2. t.byte = WORK
    BY <1>5, <1>7, <2>1 DEF Known, LastWord
  <2> QED
    BY <2>1, <2>2 DEF Told
<1> QED
  BY <1>0, <1>5, <1>6, <1>7 DEF Known, Bytes

\* No shrink of the pool takes a child from its work, but for one whose message is
\* on its way or is not stored yet.
THEOREM ShrinkHolds == Spec => ShrinkSparesWorkers
<1>1. PoolIInv /\ [Next]_vars =>
        [\A k \in Kids : usr1Pending < 0 /\ usr1Pending' = 0 /\ child[k] = "busy" /\ child'[k] = "zombie"
           => \/ WORK \in ToSet(pipe[k])
              \/ \E i \in DOMAIN stack : stack[i].do = "told" /\ stack[i].kid = k /\ stack[i].byte = WORK]_vars
  BY ShrinkStep
<1> QED
  BY <1>1, PoolInitially, PoolSteps, PTL DEF Spec, ShrinkSparesWorkers
=============================================================================
